---- MODULE Spec2Model ----
(***************************************************************************)
(* Provider fallback orchestrators of mundo-aprende-ai.                    *)
(*                                                                         *)
(* The repository holds several variants of executeWithFallback; each is   *)
(* modelled from its own source and runs under its own specification:      *)
(*   SpecBase    api/adapters/base.js   executeWithFallback(adapters, op)  *)
(*   SpecChat    api/chat.js            handler(req), the racing variant   *)
(*   SpecLoader  unnamed/part_001       executeWithFallback(modality, fn,  *)
(*                                      options), generateText/Image/TTS   *)
(*   SpecIndex   api/adapters/index.js  getAdaptersForType and             *)
(*                                      executeWithFallback(type, method,  *)
(*                                      params) with per-attempt timers    *)
(* Every await of the source is a step boundary of the model: an adapter   *)
(* call is first invoked (it is then in flight) and later settles.         *)
(***************************************************************************)
EXTENDS Integers, Sequences, FiniteSets, TLC

\* ---------------------------------------------------------------- bounds
\* longest adapter list handed to base.js executeWithFallback
MaxAdapters == 3

\* most comma-separated items in a provider-order environment variable
MaxEnvItems == 2

\* ------------------------------------------------------------ vocabulary
\* how the awaited operation(adapter) ends: it resolves to a value, to null,
\* to undefined, it rejects, or it never settles
OperationOutcomes == {"value", "null", "undefined", "reject", "hang"}

\* an adapter handed to executeWithFallback: its id and its behaviour
\* (providerId is one of the ids of the lists), what adapter.isConfigured()
\* does (returns true, returns false, or throws: BaseAdapter.isConfigured is
\* abstract and throws when not overridden) and how its operation ends
Adapter == [providerId : {"gemini", "openai", "grok"},
            isConfigured : {"true", "false", "throws"},
            operation : OperationOutcomes]

\* an adapter that is not configured is never invoked, so its operation
\* outcome is immaterial; one representative keeps the input space small
AdapterInputs == {a \in Adapter : a.isConfigured # "true" => a.operation = "reject"}

SeqsUpTo(S, n) == UNION {[1..m -> S] : m \in 0..n}

VARIABLES
    adapters,   \* base.js: the ordered adapter list of the run (input)
    pc,         \* position of the run in the code
    idx,        \* position of the for-of iterator (next element to visit)
    errors,     \* the local `errors` array
    calls,      \* positions on which the operation was invoked, in call order
    inflight,   \* positions whose operation was invoked and has not settled
    outcome,    \* what the run returned or threw ("none" while running)
    request,    \* entry points: the inbound request and the environment read
    providerOrder, \* loaders: the resolved list of provider ids
    response,   \* entry points: the response sent ("none" before)
    timers,     \* index.js: attempts whose setTimeout timer is still pending
    aborted,    \* index.js: the AbortControllers that have been aborted
    timerDelay, \* index.js: the delay given to setTimeout, per attempt started
    cancelledAt, \* the attempt in flight when the caller cancelled (0: never)
    previous,   \* how the run before the current one ended ("none": no such run)
    second      \* a second invocation running at the same time ("none": no such run)

\* the state that belongs to the entry points and the configuration; a bare
\* run of base.js executeWithFallback never touches it
timerVars == <<timers, aborted>>

scopeVars == <<timerDelay, cancelledAt>>

pairVars == <<previous, second>>

handlerVars == <<request, providerOrder, response, timerVars, scopeVars, pairVars>>

vars == <<adapters, pc, idx, errors, calls, inflight, outcome, handlerVars>>

\* ------------------------------------------------- api/adapters/base.js
\* the values an awaited call can produce: an object made by the adapter at
\* position i, null, or undefined
Value(i, id) == [type |-> "object", from |-> i, of |-> id]
Null == [type |-> "null", from |-> 0, of |-> ""]
Undefined == [type |-> "undefined", from |-> 0, of |-> ""]

\* value produced by operation(adapter) for the adapter at position i
OperationResult(i) ==
    CASE adapters[i].operation = "value" -> Value(i, adapters[i].providerId)
      [] adapters[i].operation = "null" -> Null
      [] OTHER -> Undefined

\* error.message of the rejection of operation(adapter) at position i
OperationError(i) == "failed"

\* errors.push({ providerId, error: 'Not configured' })
NotConfiguredEntry(a) == [providerId |-> a.providerId, error |-> "Not configured"]

\* errors.push({ providerId, error: error.message })
FailedEntry(i) == [providerId |-> adapters[i].providerId, error |-> OperationError(i)]

\* return { result, providerId: adapter.providerId }
BaseReturn(i) == [kind |-> "returned",
                  result |-> OperationResult(i),
                  providerId |-> adapters[i].providerId]

\* variant: the thrown error drops the collected failure list
MutAllProvidersFailed(errs) == [kind |-> "AllProvidersFailed", errors |-> <<>>]

\* throw new Error(`All providers failed: ${JSON.stringify(errors)}`)
AllProvidersFailed(errs) == [kind |-> "AllProvidersFailed", errors |-> errs]

InitBase ==
    /\ adapters \in SeqsUpTo(AdapterInputs, MaxAdapters)
    /\ pc = "loop"
    /\ idx = 1
    /\ errors = <<>>
    /\ calls = <<>>
    /\ inflight = {}
    /\ outcome = [kind |-> "none"]
    /\ request = [kind |-> "none"]
    /\ providerOrder = <<>>
    /\ response = [status |-> 0]
    /\ timers = {}
    /\ aborted = {}
    /\ timerDelay = <<>>
    /\ cancelledAt = 0
    /\ previous = [kind |-> "none"]
    /\ second = [kind |-> "none"]

\* variant: the `continue` is missing, the operation is invoked all the same
MutBaseSkipNotConfigured ==
    /\ pc = "loop"
    /\ idx <= Len(adapters)
    /\ adapters[idx].isConfigured = "false"
    /\ errors' = Append(errors, NotConfiguredEntry(adapters[idx]))
    /\ calls' = Append(calls, idx)
    /\ inflight' = inflight \cup {idx}
    /\ pc' = "await"
    /\ UNCHANGED <<adapters, idx, outcome, handlerVars>>

\* if (!adapter.isConfigured()) { errors.push(...); continue; }
BaseSkipNotConfigured ==
    /\ pc = "loop"
    /\ idx <= Len(adapters)
    /\ adapters[idx].isConfigured = "false"
    /\ errors' = Append(errors, NotConfiguredEntry(adapters[idx]))
    /\ idx' = idx + 1
    /\ UNCHANGED <<adapters, pc, calls, inflight, outcome, handlerVars>>

\* adapter.isConfigured() throws: the call is outside the try block, so the
\* exception leaves executeWithFallback
BaseConfiguredThrows ==
    /\ pc = "loop"
    /\ idx <= Len(adapters)
    /\ adapters[idx].isConfigured = "throws"
    /\ pc' = "done"
    /\ outcome' = [kind |-> "threw", message |-> "isConfigured() must be implemented"]
    /\ UNCHANGED <<adapters, idx, errors, calls, inflight, handlerVars>>

\* variant: the `await` is missing, the loop goes on while the call is pending
MutBaseInvoke ==
    /\ pc = "loop"
    /\ idx <= Len(adapters)
    /\ adapters[idx].isConfigured = "true"
    /\ calls' = Append(calls, idx)
    /\ inflight' = inflight \cup {idx}
    /\ idx' = idx + 1
    /\ UNCHANGED <<adapters, pc, errors, outcome, handlerVars>>

\* const result = await operation(adapter)  -- the call starts
BaseInvoke ==
    /\ pc = "loop"
    /\ idx <= Len(adapters)
    /\ adapters[idx].isConfigured = "true"
    /\ calls' = Append(calls, idx)
    /\ inflight' = inflight \cup {idx}
    /\ pc' = "await"
    /\ UNCHANGED <<adapters, idx, errors, outcome, handlerVars>>

\* variant: the result is kept but the `return` is missing
MutBaseResolve ==
    /\ pc = "await"
    /\ adapters[idx].operation \in {"value", "null", "undefined"}
    /\ inflight' = inflight \ {idx}
    /\ idx' = idx + 1
    /\ pc' = "loop"
    /\ UNCHANGED <<adapters, errors, calls, outcome, handlerVars>>

\* the awaited promise fulfils: return { result, providerId }
BaseResolve ==
    /\ pc = "await"
    /\ adapters[idx].operation \in {"value", "null", "undefined"}
    /\ inflight' = inflight \ {idx}
    /\ pc' = "done"
    /\ outcome' = BaseReturn(idx)
    /\ UNCHANGED <<adapters, idx, errors, calls, handlerVars>>

\* variant: errors.unshift(...) instead of errors.push(...)
MutBaseReject ==
    /\ pc = "await"
    /\ adapters[idx].operation = "reject"
    /\ inflight' = inflight \ {idx}
    /\ errors' = <<FailedEntry(idx)>> \o errors
    /\ idx' = idx + 1
    /\ pc' = "loop"
    /\ UNCHANGED <<adapters, calls, outcome, handlerVars>>

\* the awaited promise rejects: catch (error) { errors.push(...) }
BaseReject ==
    /\ pc = "await"
    /\ adapters[idx].operation = "reject"
    /\ inflight' = inflight \ {idx}
    /\ errors' = Append(errors, FailedEntry(idx))
    /\ idx' = idx + 1
    /\ pc' = "loop"
    /\ UNCHANGED <<adapters, calls, outcome, handlerVars>>

\* variant: the final throw is missing, the run ends without a result
MutBaseThrowAllFailed ==
    /\ pc = "loop"
    /\ idx > Len(adapters)
    /\ pc' = "done"
    /\ UNCHANGED <<adapters, idx, errors, calls, inflight, outcome, handlerVars>>

\* the loop is over: throw new Error(`All providers failed: ...`)
BaseThrowAllFailed ==
    /\ pc = "loop"
    /\ idx > Len(adapters)
    /\ pc' = "done"
    /\ outcome' = AllProvidersFailed(errors)
    /\ UNCHANGED <<adapters, idx, errors, calls, inflight, handlerVars>>

NextBase ==
    \/ BaseSkipNotConfigured
    \/ BaseConfiguredThrows
    \/ BaseInvoke
    \/ BaseResolve
    \/ BaseReject
    \/ BaseThrowAllFailed

SpecBase == InitBase /\ [][NextBase]_vars

\* the runtime runs every step of the run that can be taken: the loop goes
\* on, and a settled promise has the continuation of its await run
FairSpecBase == SpecBase /\ WF_vars(NextBase)

\* how a finished run ended, as its caller sees it
RunEnd == [kind |-> "run", outcome |-> outcome, errors |-> errors, calls |-> calls]

\* variant: the failure list is a module-level array that outlives the run
MutBaseRunAgain ==
    /\ pc = "done"
    /\ previous.kind = "none"
    /\ previous' = RunEnd
    /\ pc' = "loop"
    /\ idx' = 1
    /\ calls' = <<>>
    /\ outcome' = [kind |-> "none"]
    /\ UNCHANGED <<adapters, errors, inflight, request, providerOrder, response,
                   timerVars, scopeVars, second>>

\* the caller invokes executeWithFallback(adapters, operation) once more with
\* the same arguments: `const errors = []` and the for-of iterator are new
BaseRunAgain ==
    /\ pc = "done"
    /\ previous.kind = "none"
    /\ previous' = RunEnd
    /\ pc' = "loop"
    /\ idx' = 1
    /\ errors' = <<>>
    /\ calls' = <<>>
    /\ outcome' = [kind |-> "none"]
    /\ UNCHANGED <<adapters, inflight, request, providerOrder, response,
                   timerVars, scopeVars, second>>

NextBaseRepeat ==
    \/ NextBase
    \/ BaseRunAgain

SpecBaseRepeat == InitBase /\ [][NextBaseRepeat]_vars

\* ------------------------------------------------------------ api/chat.js
\* the three provider calls of the handler, in the order of the array given
\* to Promise.any: callGemini, callOpenAI, callGrok
ChatProviders == <<"gemini", "openai", "grok">>

\* the inbound request: its method, and what `await req.json()` yields (a
\* body with messages, a body without messages, or a parse failure)
\* adapters[i].isConfigured is the presence of the i-th API key in the
\* environment; adapters[i].operation is how the fetch and the reading of
\* its response end
InitChat ==
    /\ adapters \in {c \in [1..3 -> AdapterInputs] :
                        \A i \in 1..3 : /\ c[i].providerId = ChatProviders[i]
                                        /\ c[i].isConfigured \in {"true", "false"}}
    /\ request \in {[kind |-> "chat", method |-> "GET", body |-> "valid"]} \cup
                    [kind : {"chat"}, method : {"POST"},
                     body : {"valid", "noMessages", "invalid"}]
    /\ pc = "start"
    /\ idx = 1
    /\ errors = <<>>
    /\ calls = <<>>
    /\ inflight = {}
    /\ outcome = [kind |-> "none"]
    /\ providerOrder = <<>>
    /\ response = [status |-> 0]
    /\ timers = {}
    /\ aborted = {}
    /\ timerDelay = <<>>
    /\ cancelledAt = 0
    /\ previous = [kind |-> "none"]
    /\ second = [kind |-> "none"]

\* if (req.method !== 'POST') return new Response('Method Not Allowed', 405)
ChatMethodNotAllowed ==
    /\ pc = "start"
    /\ request.method # "POST"
    /\ response' = [status |-> 405, body |-> "Method Not Allowed"]
    /\ pc' = "done"
    /\ UNCHANGED <<adapters, idx, errors, calls, inflight, outcome, request, providerOrder, timerVars, scopeVars, pairVars>>

\* await req.json() rejects: the outer catch answers 500 with error.message
ChatBodyUnreadable ==
    /\ pc = "start"
    /\ request.method = "POST"
    /\ request.body = "invalid"
    /\ response' = [status |-> 500, body |-> "error.message"]
    /\ pc' = "done"
    /\ UNCHANGED <<adapters, idx, errors, calls, inflight, outcome, request, providerOrder, timerVars, scopeVars, pairVars>>

\* the rejection a call produces before reaching fetch, if any: the key is
\* missing, or `messages` is undefined and messages.map / ...messages throws
ChatEarlyRejection(i) ==
    IF adapters[i].isConfigured = "false"
    THEN <<[providerId |-> ChatProviders[i], error |-> "No Key"]>>
    ELSE IF request.body = "noMessages"
         THEN <<[providerId |-> ChatProviders[i], error |-> "TypeError"]>>
         ELSE <<>>

\* Promise.any([callGemini(), callOpenAI(), callGrok()]): the three async
\* functions are called one after the other in the same synchronous step;
\* each runs up to its fetch, so every call that has a key is now in flight
ChatStartRace ==
    /\ pc = "start"
    /\ request.method = "POST"
    /\ request.body # "invalid"
    /\ calls' = SelectSeq(<<1, 2, 3>>, LAMBDA i : ChatEarlyRejection(i) = <<>>)
    /\ inflight' = {i \in 1..3 : ChatEarlyRejection(i) = <<>>}
    /\ errors' = ChatEarlyRejection(1) \o ChatEarlyRejection(2) \o ChatEarlyRejection(3)
    /\ pc' = "race"
    /\ UNCHANGED <<adapters, idx, outcome, handlerVars>>

\* one provider call fulfils first: Promise.any fulfils with its value and
\* the handler answers 200 { result }; the other calls are left running
ChatFulfil(i) ==
    /\ pc = "race"
    /\ i \in inflight
    /\ adapters[i].operation \in {"value", "null", "undefined"}
    /\ inflight' = inflight \ {i}
    /\ idx' = i
    /\ response' = [status |-> 200, result |-> OperationResult(i)]
    /\ pc' = "done"
    /\ UNCHANGED <<adapters, errors, calls, outcome, request, providerOrder, timerVars, scopeVars, pairVars>>

\* one provider call rejects (response not ok, or unreadable response)
ChatReject(i) ==
    /\ pc = "race"
    /\ i \in inflight
    /\ adapters[i].operation = "reject"
    /\ inflight' = inflight \ {i}
    /\ errors' = Append(errors, [providerId |-> ChatProviders[i], error |-> "Failed"])
    /\ UNCHANGED <<adapters, pc, idx, calls, outcome, handlerVars>>

\* variant: the first rejection ends the race (Promise.race in place of
\* Promise.any)
MutChatAllFailed ==
    /\ pc = "race"
    /\ Len(errors) >= 1
    /\ response' = [status |-> 500, body |-> "All AIs failed"]
    /\ pc' = "done"
    /\ UNCHANGED <<adapters, idx, errors, calls, inflight, outcome, request, providerOrder, timerVars, scopeVars, pairVars>>

\* all three promises have rejected: Promise.any rejects and the handler
\* answers 500 { error: "All AIs failed" }
ChatAllFailed ==
    /\ pc = "race"
    /\ Len(errors) = 3
    /\ response' = [status |-> 500, body |-> "All AIs failed"]
    /\ pc' = "done"
    /\ UNCHANGED <<adapters, idx, errors, calls, inflight, outcome, request, providerOrder, timerVars, scopeVars, pairVars>>

\* a call that lost the race settles after the response was sent; nothing
\* listens to it any more
ChatLateSettle(i) ==
    /\ pc = "done"
    /\ i \in inflight
    /\ adapters[i].operation # "hang"
    /\ inflight' = inflight \ {i}
    /\ UNCHANGED <<adapters, pc, idx, errors, calls, outcome, handlerVars>>

NextChat ==
    \/ ChatMethodNotAllowed
    \/ ChatBodyUnreadable
    \/ ChatStartRace
    \/ \E i \in 1..3 : ChatFulfil(i)
    \/ \E i \in 1..3 : ChatReject(i)
    \/ ChatAllFailed
    \/ \E i \in 1..3 : ChatLateSettle(i)

SpecChat == InitChat /\ [][NextChat]_vars

\* the runtime runs every step of the handler that can be taken: a settled
\* promise has its continuation run, a started fetch that has an outcome
\* delivers it
FairSpecChat == SpecChat /\ WF_vars(NextChat)

\* ------------------------------------------- environment variable values
\* String.prototype.trim on the items above
Trim(s) ==
    CASE s = " " -> ""
      [] s = " openai " -> "openai"
      [] OTHER -> s

\* String.prototype.toLowerCase on the items above
ToLowerCase(s) ==
    CASE s = "Grok" -> "grok"
      [] OTHER -> s

\* process.env[NAME]: a string, held as the list of the items between its
\* commas, or not set.  String.prototype.split(',') of a string never yields
\* an empty list (the empty string is the single empty item), so the empty
\* list stands for the unset variable.
EnvUnset == <<>>

\* the comma-separated items an operator may write in a provider-order
\* variable: empty, blank, a clean id, a padded id, a capitalised id, and an
\* id no adapter is registered for
EnvValues ==
    {EnvUnset} \cup
    UNION {[1..m -> {"", " ", "gemini", " openai ", "Grok", "bogus"}] : m \in 1..MaxEnvItems}

\* a string is falsy exactly when it is empty
IsEmptyString(v) == v = <<"">>

\* .map(id => id.trim()) over the items of a list
TrimAll(items) == [n \in 1..Len(items) |-> Trim(items[n])]

\* .map(id => id.trim().toLowerCase()) over the items of a list
TrimLowerAll(items) == [n \in 1..Len(items) |-> ToLowerCase(Trim(items[n]))]

\* ----------------------------------------------------- unnamed/part_001
\* const adapters = { gemini, openai, grok, murf, pollinations }
LoaderRegistry == {"gemini", "openai", "grok", "murf", "pollinations"}

\* getProviderOrder(envVar, defaultOrder)
getProviderOrder(envValue, defaultOrder) ==
    IF envValue # EnvUnset /\ ~IsEmptyString(envValue)
    THEN SelectSeq(TrimAll(envValue), LAMBDA id : id # "")
    ELSE defaultOrder

\* the switch (modality) of executeWithFallback, for a known modality, with
\* the fallbacks DEFAULT_TEXT_ORDER, DEFAULT_IMAGE_ORDER and DEFAULT_TTS_ORDER
LoaderProviderOrder(req) ==
    CASE req.modality = "text" -> getProviderOrder(req.env, <<"gemini", "openai", "grok">>)
      [] req.modality = "image" -> getProviderOrder(req.env, <<"openai", "pollinations">>)
      [] req.modality = "tts" -> getProviderOrder(req.env, <<"openai", "murf">>)
      [] OTHER -> <<>>

\* getAdapter(id): adapters[id] || null
LoaderHasAdapter(id) == id \in LoaderRegistry

\* the calls of the module: generateText / generateImage / generateTTS pass
\* their modality and { continueOnNull: true }; executeWithFallback is also
\* exported and takes any modality and any options.  env is the value of the
\* PROVIDER_*_ORDER variable of the modality.
\* adapters is what fn(adapter) does at each position of a provider order; a position
\* without a registered adapter is never called
InitLoader ==
    /\ request \in
          [kind : {"loader"}, entry : {"generateText"}, modality : {"text"},
           continueOnNull : {TRUE}, env : EnvValues]
          \cup
          [kind : {"loader"}, entry : {"generateImage"}, modality : {"image"},
           continueOnNull : {TRUE}, env : EnvValues]
          \cup
          [kind : {"loader"}, entry : {"generateTTS"}, modality : {"tts"},
           continueOnNull : {TRUE}, env : EnvValues]
          \cup
          [kind : {"loader"}, entry : {"executeWithFallback"},
           modality : {"text", "image", "tts", "video"},
           continueOnNull : BOOLEAN, env : EnvValues]
    /\ adapters \in
          LET order == LoaderProviderOrder(request)
          IN {b \in [1..Len(order) -> [providerId : {order[n] : n \in 1..Len(order)},
                                       isConfigured : {"true"},
                                       operation : OperationOutcomes]] :
                 \A i \in 1..Len(order) :
                     /\ b[i].providerId = order[i]
                     /\ ~LoaderHasAdapter(order[i]) => b[i].operation = "reject"}
    /\ pc = "start"
    /\ idx = 1
    /\ errors = <<>>
    /\ calls = <<>>
    /\ inflight = {}
    /\ outcome = [kind |-> "none"]
    /\ providerOrder = <<>>
    /\ response = [status |-> 0]
    /\ timers = {}
    /\ aborted = {}
    /\ timerDelay = <<>>
    /\ cancelledAt = 0
    /\ previous = [kind |-> "none"]
    /\ second = [kind |-> "none"]

\* default: throw new Error(`Unknown modality: ${modality}`)
LoaderUnknownModality ==
    /\ pc = "start"
    /\ request.modality \notin {"text", "image", "tts"}
    /\ outcome' = [kind |-> "threw", message |-> "Unknown modality"]
    /\ pc' = "done"
    /\ UNCHANGED <<adapters, idx, errors, calls, inflight, handlerVars>>

\* switch (modality) { ... providerOrder = get*ProviderOrder() }
LoaderResolveOrder ==
    /\ pc = "start"
    /\ request.modality \in {"text", "image", "tts"}
    /\ providerOrder' = LoaderProviderOrder(request)
    /\ pc' = "loop"
    /\ UNCHANGED <<adapters, idx, errors, calls, inflight, outcome, request, response, timerVars, scopeVars, pairVars>>

\* variant: an id without adapter is skipped without a failure entry
MutLoaderAdapterNotFound ==
    /\ pc = "loop"
    /\ idx <= Len(providerOrder)
    /\ ~LoaderHasAdapter(providerOrder[idx])
    /\ idx' = idx + 1
    /\ UNCHANGED <<adapters, pc, errors, calls, inflight, outcome, handlerVars>>

\* if (!adapter) { errors.push({ provider, error: Error('Adapter not found') }); continue; }
LoaderAdapterNotFound ==
    /\ pc = "loop"
    /\ idx <= Len(providerOrder)
    /\ ~LoaderHasAdapter(providerOrder[idx])
    /\ errors' = Append(errors, [provider |-> providerOrder[idx],
                                 error |-> "Adapter not found"])
    /\ idx' = idx + 1
    /\ UNCHANGED <<adapters, pc, calls, inflight, outcome, handlerVars>>

\* const result = await fn(adapter)  -- the call starts
LoaderInvoke ==
    /\ pc = "loop"
    /\ idx <= Len(providerOrder)
    /\ LoaderHasAdapter(providerOrder[idx])
    /\ calls' = Append(calls, idx)
    /\ inflight' = inflight \cup {idx}
    /\ pc' = "await"
    /\ UNCHANGED <<adapters, idx, errors, outcome, handlerVars>>

\* variant: if (result === undefined && options.continueOnNull)
MutLoaderIsNullToSkip(i) ==
    /\ adapters[i].operation = "undefined"
    /\ request.continueOnNull

\* if (result === null && options.continueOnNull)
LoaderIsNullToSkip(i) ==
    /\ adapters[i].operation = "null"
    /\ request.continueOnNull

\* the call fulfils with null under continueOnNull: record it and go on
LoaderNullContinue ==
    /\ pc = "await"
    /\ adapters[idx].operation \in {"value", "null", "undefined"}
    /\ LoaderIsNullToSkip(idx)
    /\ inflight' = inflight \ {idx}
    /\ errors' = Append(errors, [provider |-> providerOrder[idx],
                                 error |-> "Provider returned null (not supported)"])
    /\ idx' = idx + 1
    /\ pc' = "loop"
    /\ UNCHANGED <<adapters, calls, outcome, handlerVars>>

\* the call fulfils otherwise: return result
LoaderReturn ==
    /\ pc = "await"
    /\ adapters[idx].operation \in {"value", "null", "undefined"}
    /\ ~LoaderIsNullToSkip(idx)
    /\ inflight' = inflight \ {idx}
    /\ outcome' = [kind |-> "returned", result |-> OperationResult(idx)]
    /\ pc' = "done"
    /\ UNCHANGED <<adapters, idx, errors, calls, handlerVars>>

\* catch (error) { errors.push({ provider: providerId, error }); }
LoaderReject ==
    /\ pc = "await"
    /\ adapters[idx].operation = "reject"
    /\ inflight' = inflight \ {idx}
    /\ errors' = Append(errors, [provider |-> providerOrder[idx],
                                 error |-> OperationError(idx)])
    /\ idx' = idx + 1
    /\ pc' = "loop"
    /\ UNCHANGED <<adapters, calls, outcome, handlerVars>>

\* errors.map(e => `${e.provider}: ${e.error.message}`).join('; ') and
\* throw new Error(`All providers failed. Errors: ${errorMessages}`)
LoaderThrowAllFailed ==
    /\ pc = "loop"
    /\ idx > Len(providerOrder)
    /\ outcome' = AllProvidersFailed(errors)
    /\ pc' = "done"
    /\ UNCHANGED <<adapters, idx, errors, calls, inflight, handlerVars>>

NextLoader ==
    \/ LoaderUnknownModality
    \/ LoaderResolveOrder
    \/ LoaderAdapterNotFound
    \/ LoaderInvoke
    \/ LoaderNullContinue
    \/ LoaderReturn
    \/ LoaderReject
    \/ LoaderThrowAllFailed

SpecLoader == InitLoader /\ [][NextLoader]_vars

\* ------------------------------------------------ api/adapters/index.js
\* const adapters = { gemini, openai, grok, murf }
IndexRegistry == {"gemini", "openai", "grok", "murf"}

\* 'gemini,openai,grok', 'gemini,openai' and 'openai,gemini,murf', held as
\* the items between the commas
DEFAULT_TEXT_PROVIDERS == <<"gemini", "openai", "grok">>
DEFAULT_IMAGE_PROVIDERS == <<"gemini", "openai">>
DEFAULT_TTS_PROVIDERS == <<"openai", "gemini", "murf">>

DEFAULT_TIMEOUT_MS == 30000

\* a string of process.env is held as the sequence of its characters; a
\* variable that is not set reads as undefined, which parseInt turns into the
\* string 'undefined', held here as one item that is no digit
TimeoutUnset == <<"undefined">>
Str10000 == <<"1", "0", "0", "0", "0">>
\* process.env.TIMEOUT_MS: not set, a number, or not a number
TimeoutEnvValues == {TimeoutUnset, Str10000, <<"a", "b", "c">>}

\* parseInt(s, 10): leading white space is skipped, a sign is read, then the
\* longest run of decimal digits is converted and whatever follows is
\* ignored; without a digit the result is NaN, which has no integer value
ParseInt(s) ==
    LET Digits == {"0", "1", "2", "3", "4", "5", "6", "7", "8", "9"}
        DigitValue(c) ==
            CASE c = "0" -> 0 [] c = "1" -> 1 [] c = "2" -> 2 [] c = "3" -> 3
              [] c = "4" -> 4 [] c = "5" -> 5 [] c = "6" -> 6 [] c = "7" -> 7
              [] c = "8" -> 8 [] OTHER -> 9
        RECURSIVE SkipWhiteSpace(_)
        SkipWhiteSpace(x) ==
            IF x # <<>> /\ Head(x) = " " THEN SkipWhiteSpace(Tail(x)) ELSE x
        RECURSIVE DigitsPrefix(_)
        DigitsPrefix(x) ==
            IF x # <<>> /\ Head(x) \in Digits
            THEN <<Head(x)>> \o DigitsPrefix(Tail(x))
            ELSE <<>>
        RECURSIVE DecimalValue(_)
        DecimalValue(ds) ==
            IF ds = <<>> THEN 0
            ELSE 10 * DecimalValue(SubSeq(ds, 1, Len(ds) - 1)) + DigitValue(ds[Len(ds)])
        t == SkipWhiteSpace(s)
        signed == t # <<>> /\ Head(t) \in {"-", "+"}
        digits == DigitsPrefix(IF signed THEN Tail(t) ELSE t)
    IN IF digits = <<>>
       THEN [nan |-> TRUE, value |-> 0]
       ELSE [nan |-> FALSE,
             value |-> IF signed /\ Head(t) = "-" THEN 0 - DecimalValue(digits)
                       ELSE DecimalValue(digits)]

\* getTimeoutMs(): isNaN(timeout) ? DEFAULT_TIMEOUT_MS : timeout
getTimeoutMs(envValue) ==
    IF ParseInt(envValue).nan THEN DEFAULT_TIMEOUT_MS ELSE ParseInt(envValue).value

\* process.env.X_PROVIDERS || DEFAULT_X_PROVIDERS
OrDefault(envValue, defaultValue) ==
    IF envValue = EnvUnset \/ IsEmptyString(envValue) THEN defaultValue ELSE envValue

\* the ids the configured list names: split(',').map(id => id.trim().toLowerCase())
IndexConfiguredIds(type, envValue) ==
    CASE type = "text" ->
             TrimLowerAll(OrDefault(envValue, DEFAULT_TEXT_PROVIDERS))
      [] type = "image" ->
             TrimLowerAll(OrDefault(envValue, DEFAULT_IMAGE_PROVIDERS))
      [] type = "tts" ->
             TrimLowerAll(OrDefault(envValue, DEFAULT_TTS_PROVIDERS))
      [] OTHER -> <<>>

\* getAdaptersForType(type): .filter(id => id && adapters[id]); the adapters
\* are identified by their id
getAdaptersForType(type, envValue) ==
    SelectSeq(IndexConfiguredIds(type, envValue),
              LAMBDA id : id # "" /\ id \in IndexRegistry)

\* what adapter[method](paramsWithSignal) does at each position, and whether
\* the adapter passes options.signal on to its request ("honoured": the call
\* rejects with an AbortError once the signal is aborted) or not ("ignored":
\* murf.js reads params.signal, not params.options.signal)
IndexBehaviours(order) ==
    {b \in [1..Len(order) -> [providerId : {order[n] : n \in 1..Len(order)},
                              isConfigured : {"true"},
                              operation : OperationOutcomes,
                              signal : {"honoured", "ignored"}]] :
        \A i \in 1..Len(order) :
            /\ b[i].providerId = order[i]
            /\ b[i].signal = "ignored" => b[i].operation \in {"value", "hang"}}

\* executeWithFallback(type, method, params): env is the value of the
\* X_PROVIDERS variable of the type; callers pass the method of the type and
\* a params object
InitIndex ==
    /\ request \in [kind : {"index"}, type : {"text", "image", "tts", "video"},
                     env : EnvValues, TIMEOUT_MS : TimeoutEnvValues]
    /\ adapters \in IndexBehaviours(getAdaptersForType(request.type, request.env))
    /\ pc = "start"
    /\ idx = 1
    /\ errors = <<>>
    /\ calls = <<>>
    /\ inflight = {}
    /\ outcome = [kind |-> "none"]
    /\ providerOrder = <<>>
    /\ response = [status |-> 0]
    /\ timers = {}
    /\ aborted = {}
    /\ timerDelay = <<>>
    /\ cancelledAt = 0
    /\ previous = [kind |-> "none"]
    /\ second = [kind |-> "none"]

\* const providers = getAdaptersForType(type); const errors = []
IndexStart ==
    /\ pc = "start"
    /\ providerOrder' = getAdaptersForType(request.type, request.env)
    /\ pc' = "loop"
    /\ UNCHANGED <<adapters, idx, errors, calls, inflight, outcome, request, response, timerVars, scopeVars, pairVars>>

\* variant: one AbortController created before the loop serves all attempts
MutAttemptController(i) == 1

\* const controller = new AbortController() inside the loop body: every
\* attempt has a controller of its own, named by the position of the attempt
AttemptController(i) == i

\* new AbortController(); setTimeout(() => controller.abort(), timeoutMs);
\* await adapter[method](paramsWithSignal)  -- the call starts
IndexInvoke ==
    /\ pc = "loop"
    /\ idx <= Len(providerOrder)
    /\ timers' = timers \cup {idx}
    /\ timerDelay' = Append(timerDelay, getTimeoutMs(request.TIMEOUT_MS))
    /\ calls' = Append(calls, idx)
    /\ inflight' = inflight \cup {idx}
    /\ pc' = "await"
    /\ UNCHANGED <<adapters, idx, errors, outcome, request, providerOrder, response, aborted, cancelledAt, pairVars>>

\* the timer of attempt t fires: () => controller.abort() of that attempt
IndexTimerFires(t) ==
    /\ t \in timers
    /\ timers' = timers \ {t}
    /\ aborted' = aborted \cup {AttemptController(t)}
    /\ UNCHANGED <<adapters, pc, idx, errors, calls, inflight, outcome, request, providerOrder, response, scopeVars, pairVars>>

\* the request of the current attempt has been aborted through the signal
IndexCallAborted ==
    /\ AttemptController(idx) \in aborted
    /\ adapters[idx].signal = "honoured"

\* variant: the result is tagged with the first provider of the order
MutIndexReturn(i) == [kind |-> "returned",
                      payload |-> IF adapters[i].operation = "value"
                                  THEN OperationResult(i)
                                  ELSE [type |-> "object", from |-> 0, of |-> ""],
                      provider |-> providerOrder[1]]

\* return { ...result, provider: adapter.id }: spreading null or undefined
\* adds no property
IndexReturn(i) == [kind |-> "returned",
                   payload |-> IF adapters[i].operation = "value"
                               THEN OperationResult(i)
                               ELSE [type |-> "object", from |-> 0, of |-> ""],
                   provider |-> providerOrder[i]]

\* the call fulfils: clearTimeout(timeoutId); return { ...result, provider }
IndexResolve ==
    /\ pc = "await"
    /\ adapters[idx].operation \in {"value", "null", "undefined"}
    /\ ~IndexCallAborted
    /\ inflight' = inflight \ {idx}
    /\ timers' = timers \ {idx}
    /\ outcome' = IndexReturn(idx)
    /\ pc' = "done"
    /\ UNCHANGED <<adapters, idx, errors, calls, request, providerOrder, response, aborted, scopeVars, pairVars>>

\* the call rejects with an error of the adapter: errors.push(`${id}: ${message}`);
\* the timer of the attempt is left as it is
IndexReject ==
    /\ pc = "await"
    /\ adapters[idx].operation = "reject"
    /\ ~IndexCallAborted
    /\ inflight' = inflight \ {idx}
    /\ errors' = Append(errors, [provider |-> providerOrder[idx],
                                 error |-> OperationError(idx)])
    /\ idx' = idx + 1
    /\ pc' = "loop"
    /\ UNCHANGED <<adapters, calls, outcome, handlerVars>>

\* the call rejects with an AbortError after its signal was aborted:
\* errors.push(`${id}: Request timed out after ${timeoutMs}ms`)
IndexTimedOut ==
    /\ pc = "await"
    /\ IndexCallAborted
    /\ inflight' = inflight \ {idx}
    /\ errors' = Append(errors, [provider |-> providerOrder[idx],
                                 error |-> "Request timed out"])
    /\ idx' = idx + 1
    /\ pc' = "loop"
    /\ UNCHANGED <<adapters, calls, outcome, handlerVars>>

\* throw new Error(`All providers failed for ${type}: ${errors.join('; ')}`)
IndexThrowAllFailed ==
    /\ pc = "loop"
    /\ idx > Len(providerOrder)
    /\ outcome' = AllProvidersFailed(errors)
    /\ pc' = "done"
    /\ UNCHANGED <<adapters, idx, errors, calls, inflight, handlerVars>>

NextIndex ==
    \/ IndexStart
    \/ IndexInvoke
    \/ \E t \in 1..Len(providerOrder) : IndexTimerFires(t)
    \/ IndexResolve
    \/ IndexReject
    \/ IndexTimedOut
    \/ IndexThrowAllFailed

SpecIndex == InitIndex /\ [][NextIndex]_vars

\* the caller of executeWithFallback gives up (client disconnect, or abort of
\* the signal it put in params.options.signal) while an attempt is in flight.
\* executeWithFallback takes no signal of its own and overwrites
\* params.options.signal with controller.signal, so nothing of the run
\* listens: the step only notes which attempt was in flight.
IndexCallerCancels ==
    /\ pc = "await"
    /\ cancelledAt = 0
    /\ cancelledAt' = idx
    /\ UNCHANGED <<adapters, pc, idx, errors, calls, inflight, outcome,
                   request, providerOrder, response, timerVars, timerDelay, pairVars>>

NextIndexCancel ==
    \/ NextIndex
    \/ IndexCallerCancels

SpecIndexCancel == InitIndex /\ [][NextIndexCancel]_vars

\* ------------------------- api/adapters/index.js: two invocations at once
\* two requests are served by the same process: both invocations read the
\* same TEXT_PROVIDERS and TIMEOUT_MS and use the same adapter registry; the
\* calls each makes end in their own way
\* how the calls of one invocation end; a fulfilled call stands for every
\* value it may fulfil with
PairBehaviours(order) ==
    {b \in IndexBehaviours(order) :
        \A i \in 1..Len(order) : b[i].operation \in {"value", "reject", "hang"}}

\* second holds the locals of the second invocation of executeWithFallback: providers, the
\* iterator, errors, and the timers it has set
InitIndexPair ==
    /\ request \in [kind : {"index"}, type : {"text"},
                     env : {<<"gemini">>, <<"gemini", " openai ">>},
                     TIMEOUT_MS : {TimeoutUnset}]
    /\ adapters \in PairBehaviours(getAdaptersForType(request.type, request.env))
    /\ pc = "start"
    /\ idx = 1
    /\ errors = <<>>
    /\ calls = <<>>
    /\ inflight = {}
    /\ outcome = [kind |-> "none"]
    /\ providerOrder = <<>>
    /\ response = [status |-> 0]
    /\ timers = {}
    /\ aborted = {}
    /\ timerDelay = <<>>
    /\ cancelledAt = 0
    /\ previous = [kind |-> "none"]
    /\ second \in {[kind |-> "run", adapters |-> b, pc |-> "start", idx |-> 1,
                      providers |-> <<>>, errors |-> <<>>, calls |-> <<>>,
                      timers |-> {}, outcome |-> [kind |-> "none"]] :
                     b \in PairBehaviours(getAdaptersForType(request.type, request.env))}

firstVars == <<adapters, pc, idx, errors, calls, inflight, outcome, request,
               providerOrder, response, timers, scopeVars, previous>>

\* variant: the controllers are kept per attempt position at module level, so
\* both invocations use the same controller for their n-th attempt
MutSecondController(i) == AttemptController(i)

\* const controller = new AbortController() in the second invocation: an
\* object of its own, distinct from every controller of the first
SecondController(i) == MaxAdapters + i

\* const providers = getAdaptersForType(type); const errors = []
SecondStart ==
    /\ second.pc = "start"
    /\ second' = [second EXCEPT !.pc = "loop",
                                !.providers = getAdaptersForType(request.type, request.env)]
    /\ UNCHANGED <<firstVars, aborted>>

\* new AbortController(); setTimeout(...); await adapter[method](paramsWithSignal)
SecondInvoke ==
    /\ second.pc = "loop"
    /\ second.idx <= Len(second.providers)
    /\ second' = [second EXCEPT !.pc = "await",
                                !.timers = @ \cup {second.idx},
                                !.calls = Append(@, second.idx)]
    /\ UNCHANGED <<firstVars, aborted>>

\* the timer of attempt t of the second invocation fires
SecondTimerFires(t) ==
    /\ t \in second.timers
    /\ second' = [second EXCEPT !.timers = @ \ {t}]
    /\ aborted' = aborted \cup {SecondController(t)}
    /\ UNCHANGED firstVars

\* the request of the current attempt of the second invocation was aborted
SecondCallAborted ==
    /\ SecondController(second.idx) \in aborted
    /\ second.adapters[second.idx].signal = "honoured"

\* the call fulfils: clearTimeout(timeoutId); return { ...result, provider }
SecondResolve ==
    /\ second.pc = "await"
    /\ second.adapters[second.idx].operation = "value"
    /\ ~SecondCallAborted
    /\ second' = [second EXCEPT
                     !.pc = "done",
                     !.timers = @ \ {second.idx},
                     !.outcome = [kind |-> "returned",
                                  payload |-> Value(second.idx,
                                                    second.providers[second.idx]),
                                  provider |-> second.providers[second.idx]]]
    /\ UNCHANGED <<firstVars, aborted>>

\* the call rejects with an error of the adapter
SecondReject ==
    /\ second.pc = "await"
    /\ second.adapters[second.idx].operation = "reject"
    /\ ~SecondCallAborted
    /\ second' = [second EXCEPT
                     !.pc = "loop",
                     !.idx = @ + 1,
                     !.errors = Append(@, [provider |-> second.providers[second.idx],
                                           error |-> "failed"])]
    /\ UNCHANGED <<firstVars, aborted>>

\* the call rejects with an AbortError after its signal was aborted
SecondTimedOut ==
    /\ second.pc = "await"
    /\ SecondCallAborted
    /\ second' = [second EXCEPT
                     !.pc = "loop",
                     !.idx = @ + 1,
                     !.errors = Append(@, [provider |-> second.providers[second.idx],
                                           error |-> "Request timed out"])]
    /\ UNCHANGED <<firstVars, aborted>>

\* throw new Error(`All providers failed for ${type}: ...`)
SecondThrowAllFailed ==
    /\ second.pc = "loop"
    /\ second.idx > Len(second.providers)
    /\ second' = [second EXCEPT !.pc = "done",
                                !.outcome = AllProvidersFailed(second.errors)]
    /\ UNCHANGED <<firstVars, aborted>>

NextIndexPair ==
    \/ NextIndex
    \/ SecondStart
    \/ SecondInvoke
    \/ \E t \in 1..MaxAdapters : SecondTimerFires(t)
    \/ SecondResolve
    \/ SecondReject
    \/ SecondTimedOut
    \/ SecondThrowAllFailed

SpecIndexPair == InitIndexPair /\ [][NextIndexPair]_vars

\* ------------------------------------- api/adapters index (CommonJS build)
\* const adapters = { gemini, openai, grok, murf, pollinations }
CjsRegistry == {"gemini", "openai", "grok", "murf", "pollinations"}

\* DEFAULT_TEXT_PROVIDERS / DEFAULT_IMAGE_PROVIDERS / DEFAULT_TTS_PROVIDERS of
\* the CommonJS index, after defaultValue.split(',')
CjsDefaultTextProviders == <<"gemini", "openai", "grok">>
CjsDefaultImageProviders == <<"pollinations", "openai">>
CjsDefaultTtsProviders == <<"openai", "murf">>

\* value.trim() is empty: the string has no comma and its single item is
\* empty or blank
IsBlankString(v) == Len(v) = 1 /\ Trim(v[1]) = ""

\* variant: the entries are trimmed but their case is kept
MutParseProviders(envValue, defaultValue) ==
    IF envValue # EnvUnset /\ ~IsBlankString(envValue)
    THEN TrimAll(envValue)
    ELSE defaultValue

\* parseProviders(envVar, defaultValue)
parseProviders(envValue, defaultValue) ==
    IF envValue # EnvUnset /\ ~IsBlankString(envValue)
    THEN TrimLowerAll(envValue)
    ELSE defaultValue

\* the values of a PRIMARY_*_PROVIDER variable; the empty string stands for
\* every falsy value (unset or empty), which `if (primary)` does not tell apart
PrimaryValues == {"", "openai", "Grok", "murf", " openai "}

\* variant: the primary id is put in front without being removed from the rest
MutMovePrimaryToFront(providers, primaryLower) ==
    <<primaryLower>> \o providers

\* const filtered = providers.filter((p) => p !== primaryLower);
\* return [primaryLower, ...filtered];
MovePrimaryToFront(providers, primaryLower) ==
    <<primaryLower>> \o SelectSeq(providers, LAMBDA p : p # primaryLower)

\* getTextProviders()
getTextProviders(envValue, primary) ==
    IF primary # ""
    THEN MovePrimaryToFront(parseProviders(envValue, CjsDefaultTextProviders),
                            ToLowerCase(primary))
    ELSE parseProviders(envValue, CjsDefaultTextProviders)

\* getImageProviders()
getImageProviders(envValue, primary) ==
    IF primary # ""
    THEN MovePrimaryToFront(parseProviders(envValue, CjsDefaultImageProviders),
                            ToLowerCase(primary))
    ELSE parseProviders(envValue, CjsDefaultImageProviders)

\* getTtsProviders()
getTtsProviders(envValue, primary) ==
    IF primary # ""
    THEN MovePrimaryToFront(parseProviders(envValue, CjsDefaultTtsProviders),
                            ToLowerCase(primary))
    ELSE parseProviders(envValue, CjsDefaultTtsProviders)

\* options.timeoutMs of the caller: not given (undefined), or a number
NoTimeoutOption == [given |-> FALSE, value |-> 0]
\* const timeoutMs = options.timeoutMs || getTimeoutMs();  -- undefined and 0
\* are falsy
CjsTimeoutMs(req) ==
    IF req.timeoutMs.given /\ req.timeoutMs.value # 0
    THEN [given |-> TRUE, value |-> req.timeoutMs.value]
    ELSE [given |-> TRUE, value |-> getTimeoutMs(req.TIMEOUT_MS)]

\* const { ..., timeoutMs = 60000 } = options;  in generateImage (openai,
\* pollinations), timeoutMs = 30000 in generateText and generateTTS (openai,
\* grok); setTimeout(() => controller.abort(), timeoutMs)
\* the default is taken only when options.timeoutMs is undefined
AdapterTimeoutMs(capability, passed) ==
    IF passed.given THEN passed.value
    ELSE IF capability = "image" THEN 60000 ELSE 30000

\* const providers = get*Providers() of the three entry points
CjsProviderOrder(req) ==
    CASE req.capability = "text" -> getTextProviders(req.env, req.primary)
      [] req.capability = "image" -> getImageProviders(req.env, req.primary)
      [] OTHER -> getTtsProviders(req.env, req.primary)

\* module.exports.capabilities of the adapter modules: openai
\* ['text', 'image', 'tts'], grok ['text'], pollinations ['image']
\* what the loop finds at one position of a provider order: no adapter
\* ("notFound"), an adapter without the capability ("noCapability"), an
\* adapter without the method ("noMethod"), or a method to call ("ok") and
\* how its call ends.  The result of the call is returned as it is, so one
\* fulfilled outcome stands for all.  The gemini and murf modules may declare
\* any capabilities and methods; the others are as CjsCapabilities says, each
\* with the method of every capability it declares.
\* a position whose method is not called has no call outcome; one
\* representative keeps the input space small
RECURSIVE CjsBehaviours(_, _)
CjsBehaviours(order, capability) ==
    LET CjsCapabilities(id) ==
            CASE id = "openai" -> {"text", "image", "tts"}
              [] id = "grok" -> {"text"}
              [] id = "pollinations" -> {"image"}
              [] OTHER -> {}
        CjsUsable(id) ==
            CASE id \notin CjsRegistry -> {"notFound"}
              [] id \in {"openai", "grok", "pollinations"} ->
                    IF capability \in CjsCapabilities(id) THEN {"ok"} ELSE {"noCapability"}
              [] OTHER -> {"noCapability", "noMethod", "ok"}
        CjsSlot(id) ==
            {[providerId |-> id, isConfigured |-> "true", usable |-> u, operation |-> o] :
                u \in CjsUsable(id), o \in {"value", "reject", "hang"}}
            \ {[providerId |-> id, isConfigured |-> "true", usable |-> u, operation |-> o] :
                u \in {"notFound", "noCapability", "noMethod"}, o \in {"value", "hang"}}
    IN IF order = <<>>
       THEN {<<>>}
       ELSE {<<slot>> \o rest : slot \in CjsSlot(Head(order)),
                                rest \in CjsBehaviours(Tail(order), capability)}

\* generateText / generateImage / generateSpeech: the capability and the
\* method name each passes to executeWithFallback.  env is the value of the
\* *_PROVIDERS variable of the capability, primary the value of its
\* PRIMARY_*_PROVIDER variable; TIMEOUT_MS is process.env.TIMEOUT_MS and
\* timeoutMs the caller's options.timeoutMs (not given, 0, or 5000).
InitCjs ==
    /\ request \in
          UNION {[kind : {"cjs"}, entry : {e[1]}, capability : {e[2]},
                  env : EnvValues, primary : PrimaryValues,
                  TIMEOUT_MS : {TimeoutUnset, Str10000},
                  timeoutMs : {NoTimeoutOption, [given |-> TRUE, value |-> 0],
                               [given |-> TRUE, value |-> 5000]}] :
                     e \in {<<"generateText", "text">>, <<"generateImage", "image">>,
                            <<"generateSpeech", "tts">>}}
    /\ adapters \in CjsBehaviours(CjsProviderOrder(request), request.capability)
    /\ pc = "start"
    /\ idx = 1
    /\ errors = <<>>
    /\ calls = <<>>
    /\ inflight = {}
    /\ outcome = [kind |-> "none"]
    /\ providerOrder = <<>>
    /\ response = [status |-> 0]
    /\ timers = {}
    /\ aborted = {}
    /\ timerDelay = <<>>
    /\ cancelledAt = 0
    /\ previous = [kind |-> "none"]
    /\ second = [kind |-> "none"]

\* const providers = getTextProviders();  (getImageProviders, getTtsProviders)
\* return executeWithFallback(capability, providers, methodName, options)
CjsResolveOrder ==
    /\ pc = "start"
    /\ providerOrder' = CjsProviderOrder(request)
    /\ pc' = "loop"
    /\ UNCHANGED <<adapters, idx, errors, calls, inflight, outcome, request,
                   response, timerVars, scopeVars, pairVars>>

\* if (!adapter) { console.warn(...); continue; }
CjsProviderNotFound ==
    /\ pc = "loop"
    /\ idx <= Len(providerOrder)
    /\ adapters[idx].usable = "notFound"
    /\ idx' = idx + 1
    /\ UNCHANGED <<adapters, pc, errors, calls, inflight, outcome, handlerVars>>

\* if (!adapter.capabilities.includes(capability)) { console.warn(...); continue; }
CjsNoCapability ==
    /\ pc = "loop"
    /\ idx <= Len(providerOrder)
    /\ adapters[idx].usable = "noCapability"
    /\ idx' = idx + 1
    /\ UNCHANGED <<adapters, pc, errors, calls, inflight, outcome, handlerVars>>

\* if (typeof method !== 'function') { console.warn(...); continue; }
CjsNoMethod ==
    /\ pc = "loop"
    /\ idx <= Len(providerOrder)
    /\ adapters[idx].usable = "noMethod"
    /\ idx' = idx + 1
    /\ UNCHANGED <<adapters, pc, errors, calls, inflight, outcome, handlerVars>>

\* const result = await method({ ...options, timeoutMs })  -- the call starts
\* and the adapter arms its timer with the timeoutMs it was handed
CjsInvoke ==
    /\ pc = "loop"
    /\ idx <= Len(providerOrder)
    /\ adapters[idx].usable = "ok"
    /\ calls' = Append(calls, idx)
    /\ timerDelay' = Append(timerDelay,
                            AdapterTimeoutMs(request.capability, CjsTimeoutMs(request)))
    /\ inflight' = inflight \cup {idx}
    /\ pc' = "await"
    /\ UNCHANGED <<adapters, idx, errors, outcome, request, providerOrder,
                   response, timerVars, cancelledAt, pairVars>>

\* the call fulfils: return result
CjsReturn ==
    /\ pc = "await"
    /\ adapters[idx].operation = "value"
    /\ inflight' = inflight \ {idx}
    /\ outcome' = [kind |-> "returned", result |-> OperationResult(idx)]
    /\ pc' = "done"
    /\ UNCHANGED <<adapters, idx, errors, calls, handlerVars>>

\* catch (error) { errors.push({ provider: providerName, error: error.message }); }
CjsReject ==
    /\ pc = "await"
    /\ adapters[idx].operation = "reject"
    /\ inflight' = inflight \ {idx}
    /\ errors' = Append(errors, [provider |-> providerOrder[idx],
                                 error |-> OperationError(idx)])
    /\ idx' = idx + 1
    /\ pc' = "loop"
    /\ UNCHANGED <<adapters, calls, outcome, handlerVars>>

\* throw new Error(`All providers failed: ${JSON.stringify(errors)}`)
CjsThrowAllFailed ==
    /\ pc = "loop"
    /\ idx > Len(providerOrder)
    /\ outcome' = AllProvidersFailed(errors)
    /\ pc' = "done"
    /\ UNCHANGED <<adapters, idx, errors, calls, inflight, handlerVars>>

NextCjs ==
    \/ CjsResolveOrder
    \/ CjsProviderNotFound
    \/ CjsNoCapability
    \/ CjsNoMethod
    \/ CjsInvoke
    \/ CjsReturn
    \/ CjsReject
    \/ CjsThrowAllFailed

SpecCjs == InitCjs /\ [][NextCjs]_vars

\* ---------------------------------------------------------- api/image.js
\* const TIMEOUT_MS = parseInt(process.env.TIMEOUT_MS || '15000', 10): the
\* result of parseInt, which is NaN for a value that is not a number
ImageTimeoutMs(envValue) ==
    ParseInt(IF envValue = TimeoutUnset \/ envValue = <<>> THEN <<"1", "5", "0", "0", "0">> ELSE envValue)

\* parseProvidersEnv(envVar, fallbackUrlName)
parseProvidersEnv(list, fallbackUrl) ==
    IF list # EnvUnset /\ ~IsBlankString(list)
    THEN SelectSeq(TrimAll(list), LAMBDA id : id # "")
    ELSE IF fallbackUrl # "" THEN <<"primary">> ELSE <<>>

\* const ids = providerIds.length ? providerIds : ['gemini', 'openai', 'grok']
ImageIds(req) ==
    LET providerIds == parseProvidersEnv(req.env, req.PRIMARY_IMAGE_API_URL)
    IN IF Len(providerIds) > 0 THEN providerIds ELSE <<"gemini", "openai", "grok">>

\* adapter.providerId of getAdapter(id): the factories of gemini, openai, grok
\* and murf carry their own id, the generic adapter carries cfg.id, which is
\* providerId.toLowerCase().trim()
ImageAdapterId(id) == ToLowerCase(Trim(id))

\* the rejection of fetch when its signal is aborted
AbortError == [name |-> "AbortError", aborted |-> TRUE, code |-> "none"]

\* how adapter.generateImage(...) ends at one position: with an image, with
\* null ("empty"), with a rejection, never while the request is pending
\* ("hang"), or never while the body of an ok response is being read
\* ("stallBody").  The adapters hand the signal to fetch, so a pending
\* request rejects with an AbortError once the signal is aborted; the body
\* is read as res.json().catch(() => ({})), so an abort while the body is
\* read yields {} and the call fulfils with null.
\* the errors a generateImage call rejects with: an HTTP error of the
\* provider (new Error(`... ${res.status}: ...`)), a connection error of
\* fetch carrying a code, and an error whose message says 'aborted'
RECURSIVE ImageBehaviours(_)
ImageBehaviours(ids) ==
    LET ImageErrors ==
            {[name |-> "Error", aborted |-> FALSE, code |-> "none"],
             [name |-> "FetchError", aborted |-> FALSE, code |-> "ECONNREFUSED"],
             [name |-> "Error", aborted |-> TRUE, code |-> "ECONNRESET"]}
        ImageSlot(id) ==
            {[providerId |-> ImageAdapterId(id), isConfigured |-> "true", operation |-> o,
              error |-> [name |-> "none", aborted |-> FALSE, code |-> "none"]] :
                o \in {"image", "empty", "hang", "stallBody"}}
            \cup
            {[providerId |-> ImageAdapterId(id), isConfigured |-> "true",
              operation |-> "reject", error |-> e] : e \in ImageErrors}
    IN IF ids = <<>>
       THEN {<<>>}
       ELSE {<<slot>> \o rest : slot \in ImageSlot(Head(ids)),
                                rest \in ImageBehaviours(Tail(ids))}

\* the requests the handler receives and the environment it reads.
\* PRIMARY_IMAGE_API_URL is read only when IMAGE_PROVIDERS is unset or blank.
InitImage ==
    /\ request \in
          {req \in [kind : {"image"}, method : {"POST", "GET"}, prompt : {"", "a cat"},
                    env : EnvValues, PRIMARY_IMAGE_API_URL : {"", "https://img.example"},
                    TIMEOUT_MS : TimeoutEnvValues] :
              /\ (req.env # EnvUnset /\ ~IsBlankString(req.env)) =>
                     req.PRIMARY_IMAGE_API_URL = ""
              /\ req.method = "GET" => req.prompt = "a cat"}
    /\ adapters = <<>>
    /\ pc = "start"
    /\ idx = 1
    /\ errors = <<>>
    /\ calls = <<>>
    /\ inflight = {}
    /\ outcome = [kind |-> "none"]
    /\ providerOrder = <<>>
    /\ response = [status |-> 0, sent |-> 0]
    /\ timers = {}
    /\ aborted = {}
    /\ timerDelay = <<>>
    /\ cancelledAt = 0
    /\ previous = [kind |-> "none"]
    /\ second = [kind |-> "none"]

\* if (req.method !== 'POST') return res.status(405).end()
ImageMethodNotAllowed ==
    /\ pc = "start"
    /\ request.method # "POST"
    /\ response' = [status |-> 405, sent |-> response.sent + 1]
    /\ pc' = "done"
    /\ UNCHANGED <<adapters, idx, errors, calls, inflight, outcome, request,
                   providerOrder, timerVars, scopeVars, pairVars>>

\* variant: the provider order is resolved before the prompt is validated
MutImageMissingPrompt ==
    /\ pc = "start"
    /\ request.method = "POST"
    /\ request.prompt = ""
    /\ providerOrder' = ImageIds(request)
    /\ response' = [status |-> 400, code |-> "MISSING_PROMPT",
                    sent |-> response.sent + 1]
    /\ pc' = "done"
    /\ UNCHANGED <<adapters, idx, errors, calls, inflight, outcome, request,
                   timerVars, scopeVars, pairVars>>

\* if (!prompt) return res.status(400).json({ error, code: 'MISSING_PROMPT' })
ImageMissingPrompt ==
    /\ pc = "start"
    /\ request.method = "POST"
    /\ request.prompt = ""
    /\ response' = [status |-> 400, code |-> "MISSING_PROMPT",
                    sent |-> response.sent + 1]
    /\ pc' = "done"
    /\ UNCHANGED <<adapters, idx, errors, calls, inflight, outcome, request,
                   providerOrder, timerVars, scopeVars, pairVars>>

\* const providerIds = parseProvidersEnv(...); const ids = ...;
\* const adapters = buildAdapters(ids); const errors = []
ImageBuildAdapters ==
    /\ pc = "start"
    /\ request.method = "POST"
    /\ request.prompt # ""
    /\ providerOrder' = ImageIds(request)
    /\ adapters' \in ImageBehaviours(ImageIds(request))
    /\ pc' = "loop"
    /\ UNCHANGED <<idx, errors, calls, inflight, outcome, request, response,
                   timerVars, scopeVars, pairVars>>

\* createTimeoutController(TIMEOUT_MS); await adapter.generateImage({ prompt,
\* options, signal: controller.signal })  -- the call starts
ImageInvoke ==
    /\ pc = "loop"
    /\ idx <= Len(adapters)
    /\ timers' = timers \cup {idx}
    /\ timerDelay' = Append(timerDelay, ImageTimeoutMs(request.TIMEOUT_MS))
    /\ calls' = Append(calls, idx)
    /\ inflight' = inflight \cup {idx}
    /\ pc' = "await"
    /\ UNCHANGED <<adapters, idx, errors, outcome, request, providerOrder,
                   response, aborted, cancelledAt, pairVars>>

\* the timer of the attempt fires: () => controller.abort()
ImageTimerFires ==
    /\ idx \in timers
    /\ timers' = timers \ {idx}
    /\ aborted' = aborted \cup {idx}
    /\ UNCHANGED <<adapters, pc, idx, errors, calls, inflight, outcome, request,
                   providerOrder, response, scopeVars, pairVars>>

\* formatErrorDetails(err, adapterId).errorType
formatErrorDetails(err) ==
    LET isTimeout == err.name = "AbortError" \/ err.aborted
        isNetworkError == err.code \in {"ECONNREFUSED", "ENOTFOUND", "ETIMEDOUT"}
    IN IF isTimeout THEN "timeout" ELSE IF isNetworkError THEN "network" ELSE "api"

\* the call fulfils with an image: clear(); return res.status(200).json(...)
ImageSuccess ==
    /\ pc = "await"
    /\ adapters[idx].operation = "image"
    /\ idx \notin aborted
    /\ timers' = timers \ {idx}
    /\ inflight' = inflight \ {idx}
    /\ response' = [status |-> 200, provider |-> adapters[idx].providerId,
                    sent |-> response.sent + 1]
    /\ pc' = "done"
    /\ UNCHANGED <<adapters, idx, errors, calls, outcome, request, providerOrder,
                   aborted, scopeVars, pairVars>>

\* variant: an empty result is passed over without a details entry
MutImageEmptyResult ==
    /\ pc = "await"
    /\ \/ adapters[idx].operation = "empty"
       \/ adapters[idx].operation = "stallBody" /\ idx \in aborted
    /\ timers' = timers \ {idx}
    /\ inflight' = inflight \ {idx}
    /\ idx' = idx + 1
    /\ pc' = "loop"
    /\ UNCHANGED <<adapters, errors, calls, outcome, request, providerOrder,
                   response, aborted, scopeVars, pairVars>>

\* the call fulfils with null or without imageUrl and base64: clear();
\* errors.push({ provider, error: 'Empty result returned', errorType: 'empty_response' }).
\* An adapter whose body read was cut by the abort fulfils with null as well.
ImageEmptyResult ==
    /\ pc = "await"
    /\ \/ adapters[idx].operation = "empty"
       \/ adapters[idx].operation = "stallBody" /\ idx \in aborted
    /\ timers' = timers \ {idx}
    /\ inflight' = inflight \ {idx}
    /\ errors' = Append(errors, [provider |-> adapters[idx].providerId,
                                 error |-> "Empty result returned",
                                 errorType |-> "empty_response"])
    /\ idx' = idx + 1
    /\ pc' = "loop"
    /\ UNCHANGED <<adapters, calls, outcome, request, providerOrder, response,
                   aborted, scopeVars, pairVars>>

\* the call rejects: clear(); errors.push({ provider, error, errorType }).  A
\* pending request rejects with an AbortError once its signal is aborted.
ImageFailed ==
    /\ pc = "await"
    /\ \/ adapters[idx].operation = "reject" /\ idx \notin aborted
       \/ adapters[idx].operation \in {"image", "reject", "hang"} /\ idx \in aborted
    /\ timers' = timers \ {idx}
    /\ inflight' = inflight \ {idx}
    /\ errors' = Append(errors,
                        [provider |-> adapters[idx].providerId,
                         error |-> "failed",
                         errorType |-> formatErrorDetails(
                                           IF idx \in aborted THEN AbortError
                                           ELSE adapters[idx].error)])
    /\ idx' = idx + 1
    /\ pc' = "loop"
    /\ UNCHANGED <<adapters, calls, outcome, request, providerOrder, response,
                   aborted, scopeVars, pairVars>>

\* return res.status(502).json({ error, code: 'ALL_PROVIDERS_FAILED',
\* attemptedProviders: ids, details: errors })
ImageAllFailed ==
    /\ pc = "loop"
    /\ idx > Len(adapters)
    /\ response' = [status |-> 502, code |-> "ALL_PROVIDERS_FAILED",
                    attemptedProviders |-> providerOrder, details |-> errors,
                    sent |-> response.sent + 1]
    /\ pc' = "done"
    /\ UNCHANGED <<adapters, idx, errors, calls, inflight, outcome, request,
                   providerOrder, timerVars, scopeVars, pairVars>>

NextImage ==
    \/ ImageMethodNotAllowed
    \/ ImageMissingPrompt
    \/ ImageBuildAdapters
    \/ ImageInvoke
    \/ ImageTimerFires
    \/ ImageSuccess
    \/ ImageEmptyResult
    \/ ImageFailed
    \/ ImageAllFailed

SpecImage == InitImage /\ [][NextImage]_vars

\* ------------------------------------- TTS handler (unnamed/part_004)
\* variant: the audio fallback provider is pushed whether or not the list
\* holds it already
MutTtsIds(req) ==
    LET providerIds == parseProvidersEnv(req.env, req.PRIMARY_TTS_API_URL)
        ids == IF Len(providerIds) > 0 THEN providerIds
               ELSE <<"openai", "gemini", "grok">>
    IN Append(ids, IF req.AUDIO_FALLBACK_PROVIDER = "" THEN "murf"
                   ELSE req.AUDIO_FALLBACK_PROVIDER)

\* process.env.AUDIO_FALLBACK_PROVIDER: the empty string stands for every
\* falsy value (unset or empty)
\* const audioFallback = process.env.AUDIO_FALLBACK_PROVIDER || 'murf'
\* const ids = providerIds.length ? providerIds : ['openai', 'gemini', 'grok'];
\* if (!ids.includes(audioFallback)) ids.push(audioFallback)
TtsIds(req) ==
    LET providerIds == parseProvidersEnv(req.env, req.PRIMARY_TTS_API_URL)
        ids == IF Len(providerIds) > 0 THEN providerIds
               ELSE <<"openai", "gemini", "grok">>
        audioFallback == IF req.AUDIO_FALLBACK_PROVIDER = "" THEN "murf"
                         ELSE req.AUDIO_FALLBACK_PROVIDER
    IN IF \E n \in 1..Len(ids) : ids[n] = audioFallback
       THEN ids
       ELSE Append(ids, audioFallback)

\* how adapter.generateTTS(...) ends at one position: with audio, with null
\* ("empty"), with a rejection, or never while the request is pending
\* ("hang"); the adapters hand the signal to fetch
RECURSIVE TtsBehaviours(_)
TtsBehaviours(ids) ==
    LET TtsSlot(id) ==
            {[providerId |-> ImageAdapterId(id), isConfigured |-> "true",
              operation |-> o] : o \in {"audio", "empty", "reject", "hang"}}
    IN IF ids = <<>>
       THEN {<<>>}
       ELSE {<<slot>> \o rest : slot \in TtsSlot(Head(ids)),
                                rest \in TtsBehaviours(Tail(ids))}

\* the requests the handler receives and the environment it reads.
\* PRIMARY_TTS_API_URL is read only when TTS_PROVIDERS is unset or blank.
InitTts ==
    /\ request \in
          {req \in [kind : {"tts"}, method : {"POST", "GET"}, text : {"", "hola"},
                    env : EnvValues, PRIMARY_TTS_API_URL : {"", "https://tts.example"},
                    AUDIO_FALLBACK_PROVIDER : {"", "gemini", "Grok"}] :
              /\ (req.env # EnvUnset /\ ~IsBlankString(req.env)) =>
                     req.PRIMARY_TTS_API_URL = ""
              /\ req.method = "GET" => req.text = "hola"}
    /\ adapters = <<>>
    /\ pc = "start"
    /\ idx = 1
    /\ errors = <<>>
    /\ calls = <<>>
    /\ inflight = {}
    /\ outcome = [kind |-> "none"]
    /\ providerOrder = <<>>
    /\ response = [status |-> 0, sent |-> 0]
    /\ timers = {}
    /\ aborted = {}
    /\ timerDelay = <<>>
    /\ cancelledAt = 0
    /\ previous = [kind |-> "none"]
    /\ second = [kind |-> "none"]

\* if (req.method !== 'POST') return res.status(405).end()
TtsMethodNotAllowed ==
    /\ pc = "start"
    /\ request.method # "POST"
    /\ response' = [status |-> 405, sent |-> response.sent + 1]
    /\ pc' = "done"
    /\ UNCHANGED <<adapters, idx, errors, calls, inflight, outcome, request,
                   providerOrder, timerVars, scopeVars, pairVars>>

\* if (!text) return res.status(400).json({ error: 'Missing text' })
TtsMissingText ==
    /\ pc = "start"
    /\ request.method = "POST"
    /\ request.text = ""
    /\ response' = [status |-> 400, error |-> "Missing text",
                    sent |-> response.sent + 1]
    /\ pc' = "done"
    /\ UNCHANGED <<adapters, idx, errors, calls, inflight, outcome, request,
                   providerOrder, timerVars, scopeVars, pairVars>>

\* const providerIds = parseProvidersEnv(...); const ids = ...;
\* ids.push(audioFallback); const adapters = buildAdapters(ids)
TtsBuildAdapters ==
    /\ pc = "start"
    /\ request.method = "POST"
    /\ request.text # ""
    /\ providerOrder' = TtsIds(request)
    /\ adapters' \in TtsBehaviours(TtsIds(request))
    /\ pc' = "loop"
    /\ UNCHANGED <<idx, errors, calls, inflight, outcome, request, response,
                   timerVars, scopeVars, pairVars>>

\* createTimeoutController(TIMEOUT_MS); await adapter.generateTTS({ text,
\* voice, options, signal: controller.signal })  -- the call starts
TtsInvoke ==
    /\ pc = "loop"
    /\ idx <= Len(adapters)
    /\ timers' = timers \cup {idx}
    /\ calls' = Append(calls, idx)
    /\ inflight' = inflight \cup {idx}
    /\ pc' = "await"
    /\ UNCHANGED <<adapters, idx, errors, outcome, request, providerOrder,
                   response, aborted, scopeVars, pairVars>>

\* the timer of the attempt fires: () => controller.abort()
TtsTimerFires ==
    /\ idx \in timers
    /\ timers' = timers \ {idx}
    /\ aborted' = aborted \cup {idx}
    /\ UNCHANGED <<adapters, pc, idx, errors, calls, inflight, outcome, request,
                   providerOrder, response, scopeVars, pairVars>>

\* the call fulfils with audio: clear(); return res.status(200).json(...)
TtsSuccess ==
    /\ pc = "await"
    /\ adapters[idx].operation = "audio"
    /\ idx \notin aborted
    /\ timers' = timers \ {idx}
    /\ inflight' = inflight \ {idx}
    /\ response' = [status |-> 200, provider |-> adapters[idx].providerId,
                    sent |-> response.sent + 1]
    /\ pc' = "done"
    /\ UNCHANGED <<adapters, idx, errors, calls, outcome, request, providerOrder,
                   aborted, scopeVars, pairVars>>

\* the call fulfils without audio, or rejects (console.warn), or its pending
\* request is aborted: clear(); the loop goes on and nothing is recorded
TtsNextProvider ==
    /\ pc = "await"
    /\ \/ adapters[idx].operation \in {"empty", "reject"}
       \/ adapters[idx].operation \in {"audio", "hang"} /\ idx \in aborted
    /\ timers' = timers \ {idx}
    /\ inflight' = inflight \ {idx}
    /\ idx' = idx + 1
    /\ pc' = "loop"
    /\ UNCHANGED <<adapters, errors, calls, outcome, request, providerOrder,
                   response, aborted, scopeVars, pairVars>>

\* return res.status(502).json({ error: 'All TTS providers failed' })
TtsAllFailed ==
    /\ pc = "loop"
    /\ idx > Len(adapters)
    /\ response' = [status |-> 502, error |-> "All TTS providers failed",
                    sent |-> response.sent + 1]
    /\ pc' = "done"
    /\ UNCHANGED <<adapters, idx, errors, calls, inflight, outcome, request,
                   providerOrder, timerVars, scopeVars, pairVars>>

NextTts ==
    \/ TtsMethodNotAllowed
    \/ TtsMissingText
    \/ TtsBuildAdapters
    \/ TtsInvoke
    \/ TtsTimerFires
    \/ TtsSuccess
    \/ TtsNextProvider
    \/ TtsAllFailed

SpecTts == InitTts /\ [][NextTts]_vars

\* ------------------------------------------------ calls of getTimeoutMs()
\* the longest TIMEOUT_MS string that is enumerated
MaxTimeoutLen == 3

\* process.env.TIMEOUT_MS before a call of getTimeoutMs(): not set, '10000',
\* and every string of up to MaxTimeoutLen characters
InitTimeout ==
    /\ request \in
          LET TimeoutChars == {"1", "0", "a", " ", "-"}
              RECURSIVE StringsUpTo(_)
              StringsUpTo(n) ==
                  IF n = 0 THEN {<<>>}
                  ELSE LET shorter == StringsUpTo(n - 1)
                       IN shorter \cup
                          {<<c>> \o x : c \in TimeoutChars,
                                        x \in {y \in shorter : Len(y) = n - 1}}
          IN [TIMEOUT_MS : StringsUpTo(MaxTimeoutLen) \cup {TimeoutUnset, Str10000}]
    /\ adapters = <<>>
    /\ pc = "start"
    /\ idx = 1
    /\ errors = <<>>
    /\ calls = <<>>
    /\ inflight = {}
    /\ outcome = [kind |-> "none"]
    /\ providerOrder = <<>>
    /\ response = [status |-> 0, sent |-> 0]
    /\ timers = {}
    /\ aborted = {}
    /\ timerDelay = <<>>
    /\ cancelledAt = 0
    /\ previous = [kind |-> "none"]
    /\ second = [kind |-> "none"]

\* const timeout = parseInt(process.env.TIMEOUT_MS, 10);
\* return isNaN(timeout) ? DEFAULT_TIMEOUT_MS : timeout;
TimeoutCall ==
    /\ pc = "start"
    /\ outcome' = [kind |-> "returned", value |-> getTimeoutMs(request.TIMEOUT_MS)]
    /\ pc' = "done"
    /\ UNCHANGED <<adapters, idx, errors, calls, inflight, handlerVars>>

NextTimeout == TimeoutCall

SpecTimeout == InitTimeout /\ [][NextTimeout]_vars

\* ------------------------------------- lib/envValidator.js: validateEnvVars
\* the longest envVars object that is enumerated
MaxEnvVars == 3

\* validateEnvVars(envVars, category): request.envVars are the values of
\* Object.entries(envVars) in their order, request.env is process.env for
\* the names that occur (not set, empty, blank, or a value)
InitValidate ==
    /\ request \in [kind : {"validate"}, category : {"TTS", "TEXT"},
                     envVars : UNION {[1..m -> {"TTS_PROVIDERS", "PRIMARY_TTS_API_URL",
                                                "TIMEOUT_MS"}] : m \in 0..MaxEnvVars},
                     env : [{"TTS_PROVIDERS", "PRIMARY_TTS_API_URL", "TIMEOUT_MS"} ->
                               {EnvUnset, <<"">>, <<" ">>, <<"murf">>}]]
    /\ outcome = [kind |-> "result", warnings |-> <<>>, missing |-> <<>>,
                  configured |-> <<>>]
    /\ adapters = <<>>
    /\ pc = "loop"
    /\ idx = 1
    /\ errors = <<>>
    /\ calls = <<>>
    /\ inflight = {}
    /\ providerOrder = <<>>
    /\ response = [status |-> 0, sent |-> 0]
    /\ timers = {}
    /\ aborted = {}
    /\ timerDelay = <<>>
    /\ cancelledAt = 0
    /\ previous = [kind |-> "none"]
    /\ second = [kind |-> "none"]

\* variant: the name is recorded as missing without a warning
MutValidateMissing ==
    /\ pc = "loop"
    /\ idx <= Len(request.envVars)
    /\ LET value == request.env[request.envVars[idx]]
       IN value = EnvUnset \/ IsBlankString(value)
    /\ outcome' = [outcome EXCEPT !.missing = Append(@, request.envVars[idx])]
    /\ idx' = idx + 1
    /\ UNCHANGED <<adapters, pc, errors, calls, inflight, handlerVars>>

\* if (!value || !value.trim()) { result.missing.push(envName);
\* result.warnings.push(`[${category}] Environment variable '${envName}' is not set`) }
ValidateMissing ==
    /\ pc = "loop"
    /\ idx <= Len(request.envVars)
    /\ LET value == request.env[request.envVars[idx]]
       IN value = EnvUnset \/ IsBlankString(value)
    /\ outcome' = [outcome EXCEPT
                      !.missing = Append(@, request.envVars[idx]),
                      !.warnings = Append(@, <<"[", request.category,
                                               "] Environment variable '",
                                               request.envVars[idx], "' is not set">>)]
    /\ idx' = idx + 1
    /\ UNCHANGED <<adapters, pc, errors, calls, inflight, handlerVars>>

\* else { result.configured.push(envName) }
ValidateConfigured ==
    /\ pc = "loop"
    /\ idx <= Len(request.envVars)
    /\ LET value == request.env[request.envVars[idx]]
       IN ~(value = EnvUnset \/ IsBlankString(value))
    /\ outcome' = [outcome EXCEPT !.configured = Append(@, request.envVars[idx])]
    /\ idx' = idx + 1
    /\ UNCHANGED <<adapters, pc, errors, calls, inflight, handlerVars>>

\* return result
ValidateReturn ==
    /\ pc = "loop"
    /\ idx > Len(request.envVars)
    /\ pc' = "done"
    /\ UNCHANGED <<adapters, idx, errors, calls, inflight, outcome, handlerVars>>

NextValidate ==
    \/ ValidateMissing
    \/ ValidateConfigured
    \/ ValidateReturn

SpecValidate == InitValidate /\ [][NextValidate]_vars

\* ------------------------- one operation of a factory or class adapter
\* the adapters the calls are made on: the objects of createGenericAdapter
\* (adapters/generic.js), createGrokAdapter (unnamed/part_018) and
\* createMurfAdapter (adapters/murf.js), built with or without cfg.url, the
\* classes GrokAdapter (api/adapters/grok.js) and MurfAdapter
\* (unnamed/part_017), and the module api/adapters/murf.js.  Of the classes
\* and the module only the operations of the capabilities the vendor lacks
\* are called here.  adapters[1] is what the vendor's server does with the
\* request: fetch rejects, stays pending, or yields a response that is ok or
\* not, whose JSON body is unreadable or holds the given truthy fields.
InitOperation ==
    /\ request \in
          [kind : {"operation"}, adapter : {"generic", "grok", "murf"},
           operation : {"generateText", "generateImage", "generateTTS"},
           url : {"", "https://api.example"}]
          \cup
          [kind : {"operation"}, adapter : {"GrokAdapter"},
           operation : {"generateImage", "generateTTS"}, url : {""}]
          \cup
          [kind : {"operation"}, adapter : {"MurfAdapter", "murfModule"},
           operation : {"generateText", "generateImage"}, url : {""}]
    /\ adapters \in
          {<<[fetch |-> f, readable |-> TRUE, fields |-> {}]>> :
              f \in {"rejects", "hang", "notOk"}}
          \cup
          {<<[fetch |-> "ok", readable |-> b, fields |-> IF b THEN fs ELSE {}]>> :
              b \in BOOLEAN,
              fs \in {{}, {"unexpected"}, {"text"}, {"output"}, {"result"}, {"choices"},
                      {"url"}, {"image_url"}, {"data"}, {"base64"}, {"audio_url"},
                      {"text", "url"}, {"url", "base64"}}}
    /\ pc = "start"
    /\ idx = 1
    /\ errors = <<>>
    /\ calls = <<>>
    /\ inflight = {}
    /\ outcome = [kind |-> "none"]
    /\ providerOrder = <<>>
    /\ response = [status |-> 0, sent |-> 0]
    /\ timers = {}
    /\ aborted = {}
    /\ timerDelay = <<>>
    /\ cancelledAt = 0
    /\ previous = [kind |-> "none"]
    /\ second = [kind |-> "none"]

\* the operation belongs to a capability the adapter's code never sends a
\* request for: generateText / generateImage of the Murf adapters, every
\* operation listed for the classes, and generateImage / generateTTS of the
\* Grok object built without cfg.url
OperationDeclined(req) ==
    \/ req.adapter \in {"GrokAdapter", "MurfAdapter", "murfModule"}
    \/ req.adapter = "murf" /\ req.operation \in {"generateText", "generateImage"}
    \/ req.adapter = "grok" /\ req.url = ""
          /\ req.operation \in {"generateImage", "generateTTS"}

\* generateText: async () => null  -- the operation fulfils with null at once
OperationDeclineNull ==
    /\ pc = "start"
    /\ OperationDeclined(request)
    /\ request.adapter \in {"murf", "murfModule", "grok"}
    /\ outcome' = [kind |-> "returned",
                   result |-> [type |-> "null", from |-> "none", base64 |-> FALSE]]
    /\ pc' = "done"
    /\ UNCHANGED <<adapters, idx, errors, calls, inflight, handlerVars>>

\* async generateImage() { throw new Error('Grok image generation not supported') }
OperationDeclineThrows ==
    /\ pc = "start"
    /\ request.adapter \in {"GrokAdapter", "MurfAdapter"}
    /\ outcome' = [kind |-> "threw", message |-> "not supported"]
    /\ pc' = "done"
    /\ UNCHANGED <<adapters, idx, errors, calls, inflight, handlerVars>>

\* if (!baseUrl) throw new Error('No base URL configured for generic adapter');
\* the Grok and Murf objects built without cfg.url throw from generateText
\* and generateTTS
OperationNotConfigured ==
    /\ pc = "start"
    /\ ~OperationDeclined(request)
    /\ request.url = ""
    /\ outcome' = [kind |-> "threw", message |-> "not configured"]
    /\ pc' = "done"
    /\ UNCHANGED <<adapters, idx, errors, calls, inflight, handlerVars>>

\* const res = await nodeFetch(url, { method: 'POST', ..., signal })  -- the
\* request is sent
OperationFetch ==
    /\ pc = "start"
    /\ ~OperationDeclined(request)
    /\ request.url # ""
    /\ calls' = Append(calls, 1)
    /\ inflight' = {1}
    /\ pc' = "await"
    /\ UNCHANGED <<adapters, idx, errors, outcome, handlerVars>>

\* the awaited fetch rejects: the rejection leaves the operation
OperationFetchRejects ==
    /\ pc = "await"
    /\ adapters[1].fetch = "rejects"
    /\ inflight' = {}
    /\ outcome' = [kind |-> "threw", message |-> "fetch failed"]
    /\ pc' = "done"
    /\ UNCHANGED <<adapters, idx, errors, calls, handlerVars>>

\* variant: a response that is not ok is treated like an empty body
MutOperationNotOk ==
    /\ pc = "await"
    /\ adapters[1].fetch = "notOk"
    /\ inflight' = {}
    /\ outcome' = [kind |-> "returned",
                   result |-> [type |-> "null", from |-> "none", base64 |-> FALSE]]
    /\ pc' = "done"
    /\ UNCHANGED <<adapters, idx, errors, calls, handlerVars>>

\* if (!res.ok) { const txt = await res.text().catch(() => '');
\* throw new Error(`HTTP ${res.status}: ${txt}`) }
OperationNotOk ==
    /\ pc = "await"
    /\ adapters[1].fetch = "notOk"
    /\ inflight' = {}
    /\ outcome' = [kind |-> "threw", message |-> "HTTP status"]
    /\ pc' = "done"
    /\ UNCHANGED <<adapters, idx, errors, calls, handlerVars>>

\* what an operation makes of the JSON body: the first truthy field of
\* json.text || json.output || json.result || choices[0].text (the last one
\* in the generic adapter only), of json.url || json.image_url ||
\* json.data[0].url, of json.url || json.audio_url, and json.base64; null
\* when there is none
OperationResultOf(req, fields) ==
    LET wanted == CASE req.operation = "generateText" ->
                           IF req.adapter = "generic"
                           THEN <<"text", "output", "result", "choices">>
                           ELSE <<"text", "output", "result">>
                     [] req.operation = "generateImage" -> <<"url", "image_url", "data">>
                     [] OTHER -> <<"url", "audio_url">>
        found == SelectSeq(wanted, LAMBDA f : f \in fields)
        base64 == req.operation # "generateText" /\ "base64" \in fields
    IN IF found = <<>> /\ ~base64
       THEN [type |-> "null", from |-> "none", base64 |-> FALSE]
       ELSE [type |-> req.operation,
             from |-> IF found = <<>> THEN "none" ELSE Head(found),
             base64 |-> base64]

\* const json = await res.json().catch(() => ({}));  then the operation maps
\* the fields: return text ? { text } : null;  if (!imageUrl && !base64)
\* return null; return { imageUrl, base64 }
OperationOk ==
    /\ pc = "await"
    /\ adapters[1].fetch = "ok"
    /\ inflight' = {}
    /\ outcome' = [kind |-> "returned",
                   result |-> OperationResultOf(request,
                                 IF adapters[1].readable THEN adapters[1].fields ELSE {})]
    /\ pc' = "done"
    /\ UNCHANGED <<adapters, idx, errors, calls, handlerVars>>

NextOperation ==
    \/ OperationDeclineNull
    \/ OperationDeclineThrows
    \/ OperationNotConfigured
    \/ OperationFetch
    \/ OperationFetchRejects
    \/ OperationNotOk
    \/ OperationOk

SpecOperation == InitOperation /\ [][NextOperation]_vars

\* ------------------------------- api/adapters/murf.js: generateTTS
\* one call of generateTTS({ text, voice, options, signal }).  request holds
\* MURF_API_KEY, whether the caller gave a signal, and options.timeout (0
\* stands for every falsy value).  adapters[1] is what the vendor's servers
\* do: how the fetch of speech/generate ends, what its JSON body is, how the
\* fetch of data.audioFile ends and how the reading of the blob ends.
\* cancelledAt is 0 while the caller's signal is not aborted, 1 when it was
\* aborted before the call started and 2 when it was aborted during the
\* call; 1 \in aborted says that the adapter's own controller is aborted.
InitMurf ==
    /\ request \in [kind : {"murfTTS"}, MURF_API_KEY : {"", "key"},
                     signal : {"none", "given"}, timeout : {0, 5000}]
    /\ adapters \in
          {<<[speech |-> s, body |-> "none", audio |-> "none", blob |-> "none"]>> :
              s \in {"rejects", "hang", "notOk"}}
          \cup
          {<<[speech |-> "ok", body |-> b, audio |-> "none", blob |-> "none"]>> :
              b \in {"noAudioFile", "unreadable", "hang"}}
          \cup
          {<<[speech |-> "ok", body |-> "audioFile", audio |-> a, blob |-> "none"]>> :
              a \in {"rejects", "hang", "notOk"}}
          \cup
          {<<[speech |-> "ok", body |-> "audioFile", audio |-> "ok", blob |-> b]>> :
              b \in {"ok", "hang", "rejects"}}
    /\ pc = "start"
    /\ idx = 1
    /\ errors = <<>>
    /\ calls = <<>>
    /\ inflight = {}
    /\ outcome = [kind |-> "none"]
    /\ providerOrder = <<>>
    /\ response = [status |-> 0, sent |-> 0]
    /\ timers = {}
    /\ aborted = {}
    /\ timerDelay = <<>>
    /\ cancelledAt = 0
    /\ previous = [kind |-> "none"]
    /\ second = [kind |-> "none"]

\* if (!apiKey) throw new Error('MURF_API_KEY is not configured')
MurfNoKey ==
    /\ pc = "start"
    /\ request.MURF_API_KEY = ""
    /\ outcome' = [kind |-> "threw", message |-> "MURF_API_KEY is not configured"]
    /\ pc' = "done"
    /\ UNCHANGED <<adapters, idx, errors, calls, inflight, handlerVars>>

\* const timeout = options.timeout || DEFAULT_TIMEOUT;
\* createTimeoutController(timeout, signal): a new controller, a timer that
\* aborts it, and a listener for 'abort' on the caller's signal; then the
\* first fetch is sent with controller.signal.  A listener added to a signal
\* that is aborted already is never run.
MurfStart ==
    /\ pc = "start"
    /\ request.MURF_API_KEY # ""
    /\ timers' = {1}
    /\ timerDelay' = <<IF request.timeout = 0 THEN 30000 ELSE request.timeout>>
    /\ calls' = <<1>>
    /\ inflight' = {1}
    /\ pc' = "speech"
    /\ UNCHANGED <<adapters, idx, errors, outcome, request, providerOrder, response,
                   aborted, cancelledAt, pairVars>>

\* the caller aborts its signal: externalSignal dispatches 'abort', and the
\* listener, if it is registered by now, runs controller.abort()
MurfSignalAborts ==
    /\ request.signal = "given"
    /\ cancelledAt = 0
    /\ pc # "done"
    /\ cancelledAt' = IF pc = "start" THEN 1 ELSE 2
    /\ aborted' = IF pc = "start" THEN aborted ELSE aborted \cup {1}
    /\ UNCHANGED <<adapters, pc, idx, errors, calls, inflight, outcome, request,
                   providerOrder, response, timers, timerDelay, pairVars>>

\* the timer fires: () => controller.abort()
MurfTimerFires ==
    /\ 1 \in timers
    /\ timers' = {}
    /\ aborted' = aborted \cup {1}
    /\ UNCHANGED <<adapters, pc, idx, errors, calls, inflight, outcome, request,
                   providerOrder, response, scopeVars, pairVars>>

\* controller.signal is aborted while a fetch or the reading of a body is
\* awaited: the await rejects with an AbortError; finally { clearTimeout }
MurfAborted ==
    /\ pc \in {"speech", "text", "json", "audio", "blob"}
    /\ 1 \in aborted
    /\ timers' = {}
    /\ inflight' = {}
    /\ outcome' = [kind |-> "threw", message |-> "AbortError"]
    /\ pc' = "done"
    /\ UNCHANGED <<adapters, idx, errors, calls, request, providerOrder, response,
                   aborted, scopeVars, pairVars>>

\* an awaited step ends and the call goes on: the first response arrives (ok:
\* await response.json(); not ok: await response.text()), the body holds
\* data.audioFile and the second fetch is sent, its response is ok and
\* audioResponse.blob() is awaited
MurfProceed ==
    /\ 1 \notin aborted
    /\ \/ /\ pc = "speech" /\ adapters[1].speech = "ok"
          /\ pc' = "json" /\ calls' = calls
       \/ /\ pc = "speech" /\ adapters[1].speech = "notOk"
          /\ pc' = "text" /\ calls' = calls
       \/ /\ pc = "json" /\ adapters[1].body = "audioFile"
          /\ pc' = "audio" /\ calls' = Append(calls, 2)
       \/ /\ pc = "audio" /\ adapters[1].audio = "ok"
          /\ pc' = "blob" /\ calls' = calls
    /\ UNCHANGED <<adapters, idx, errors, inflight, outcome, handlerVars>>

\* an awaited step ends with an error that leaves the call: a fetch rejects,
\* throw new Error(`Murf API error: ...`) after response.text(), the body is
\* not JSON, throw new Error('Invalid response structure from Murf API'),
\* throw new Error(`Failed to fetch Murf audio: ...`), blob() rejects;
\* finally { clearTimeout(timeoutId) }
MurfThrows ==
    /\ 1 \notin aborted
    /\ \/ pc = "speech" /\ adapters[1].speech = "rejects"
       \/ pc = "text"
       \/ pc = "json" /\ adapters[1].body \in {"noAudioFile", "unreadable"}
       \/ pc = "audio" /\ adapters[1].audio \in {"rejects", "notOk"}
       \/ pc = "blob" /\ adapters[1].blob = "rejects"
    /\ timers' = {}
    /\ inflight' = {}
    /\ outcome' = [kind |-> "threw", message |-> "Error"]
    /\ pc' = "done"
    /\ UNCHANGED <<adapters, idx, errors, calls, request, providerOrder, response,
                   aborted, scopeVars, pairVars>>

\* return await audioResponse.blob();  finally { clearTimeout(timeoutId) }
MurfReturn ==
    /\ pc = "blob"
    /\ adapters[1].blob = "ok"
    /\ 1 \notin aborted
    /\ timers' = {}
    /\ inflight' = {}
    /\ outcome' = [kind |-> "returned", result |-> [type |-> "blob"]]
    /\ pc' = "done"
    /\ UNCHANGED <<adapters, idx, errors, calls, request, providerOrder, response,
                   aborted, scopeVars, pairVars>>

NextMurf ==
    \/ MurfNoKey
    \/ MurfStart
    \/ MurfSignalAborts
    \/ MurfTimerFires
    \/ MurfAborted
    \/ MurfProceed
    \/ MurfThrows
    \/ MurfReturn

SpecMurf == InitMurf /\ [][NextMurf]_vars

\* --------------------------------------------- properties of base.js runs
Range(f) == {f[n] : n \in DOMAIN f}

\* the adapter at position j is passed over with a recorded failure: it
\* reports not configured, or its operation settles with a rejection
PassedOver(j) ==
    \/ adapters[j].isConfigured = "false"
    \/ /\ adapters[j].isConfigured = "true"
       /\ adapters[j].operation = "reject"

Resolves(j) ==
    /\ adapters[j].isConfigured = "true"
    /\ adapters[j].operation \in {"value", "null", "undefined"}

\* position k is the first adapter that is configured and whose operation
\* resolves; every adapter before it is passed over
IsFirstSuccess(k) ==
    /\ k \in 1..Len(adapters)
    /\ Resolves(k)
    /\ \A j \in 1..(k - 1) : PassedOver(j)

\* the failure entry the source records for a passed-over adapter
ExpectedEntry(j) ==
    IF adapters[j].isConfigured = "false"
    THEN [providerId |-> adapters[j].providerId, error |-> "Not configured"]
    ELSE [providerId |-> adapters[j].providerId, error |-> "failed"]

\* C1: when position k is the first adapter that is configured and whose
\* operation resolves, the operation is never invoked on a position after k,
\* and a finished run has returned the result and the providerId of k.
C1_FirstSuccessWins ==
    \A k \in 1..Len(adapters) :
        IsFirstSuccess(k) =>
            /\ \A n \in 1..Len(calls) : calls[n] <= k
            /\ pc = "done" =>
                  /\ outcome.kind = "returned"
                  /\ outcome.providerId = adapters[k].providerId
                  /\ outcome.result =
                        (CASE adapters[k].operation = "value" ->
                                  Value(k, adapters[k].providerId)
                           [] adapters[k].operation = "null" -> Null
                           [] OTHER -> Undefined)

\* a finished run won by the middle adapter of three, after a not-configured
\* or failing first adapter, with a configured adapter left untried
C1_Witness ==
    /\ pc = "done"
    /\ Len(adapters) = 3
    /\ IsFirstSuccess(2)
    /\ adapters[3].isConfigured = "true"
    /\ outcome.kind = "returned"

\* C2: the operation is invoked on the adapters in list order, and each
\* invocation starts only when no earlier invocation is in flight and every
\* earlier invocation has settled with a recorded failure.
C2_InOrderAfterFailure ==
    [][calls' # calls =>
          /\ inflight = {}
          /\ Len(calls') = Len(calls) + 1
          /\ \A n \in 1..Len(calls) :
                /\ calls[n] < calls'[Len(calls')]
                /\ adapters[calls[n]].operation = "reject"
                /\ \E m \in 1..Len(errors) :
                      errors[m] = [providerId |-> adapters[calls[n]].providerId,
                                   error |-> "failed"]
          /\ Cardinality({m \in 1..Len(errors) : errors[m].error = "failed"})
                 = Len(calls)]_vars

\* the third adapter is invoked after the first two were invoked and failed
C2_Witness ==
    /\ calls = <<1, 2, 3>>
    /\ Len(errors) = 2

\* C4: an adapter whose isConfigured() returns false is never passed to the
\* operation; once the loop is past it, its 'Not configured' entry is
\* recorded at its place, and the run does not end at it.
C4_NotConfiguredSkipped ==
    \A j \in 1..Len(adapters) :
        adapters[j].isConfigured = "false" =>
            /\ j \notin Range(calls)
            /\ j \notin inflight
            /\ idx > j =>
                  /\ Len(errors) >= j
                  /\ errors[j] = [providerId |-> adapters[j].providerId,
                                  error |-> "Not configured"]
            /\ pc = "done" => idx # j

\* a not-configured first adapter was skipped and the second one invoked
C4_Witness ==
    /\ Len(adapters) >= 2
    /\ adapters[1].isConfigured = "false"
    /\ calls = <<2>>
    /\ Len(errors) = 1

\* C5: when every adapter of the list reports not configured, no operation
\* is invoked, and the finished run has thrown 'All providers failed' with
\* one 'Not configured' entry per adapter, in list order.
C5_AllNotConfigured ==
    (\A j \in 1..Len(adapters) : adapters[j].isConfigured = "false") =>
        /\ calls = <<>>
        /\ inflight = {}
        /\ pc = "done" =>
              /\ outcome.kind = "AllProvidersFailed"
              /\ Len(outcome.errors) = Len(adapters)
              /\ \A j \in 1..Len(adapters) :
                    outcome.errors[j] = [providerId |-> adapters[j].providerId,
                                         error |-> "Not configured"]

\* three adapters, none configured, and the run has thrown
C5_Witness ==
    /\ Len(adapters) = 3
    /\ \A j \in 1..3 : adapters[j].isConfigured = "false"
    /\ adapters[1].providerId # adapters[2].providerId
    /\ pc = "done"

\* C6: at every point of a run the failure list holds exactly one entry for
\* each adapter already passed over, in list order; so when position k has
\* won, the list holds the entries of positions 1..k-1 and nothing else.
C6_OneEntryPerPassedAdapter ==
    /\ Len(errors) = idx - 1
    /\ \A j \in 1..Len(errors) : errors[j] = ExpectedEntry(j)
    /\ outcome.kind = "returned" =>
          /\ \A j \in 1..(idx - 1) : PassedOver(j)
          /\ outcome.providerId = adapters[idx].providerId

\* gemini and openai fail, grok wins: two entries, gemini then openai
C6_Witness ==
    /\ Len(adapters) = 3
    /\ adapters[1].providerId = "gemini" /\ adapters[1].operation = "reject"
    /\ adapters[1].isConfigured = "true"
    /\ adapters[2].providerId = "openai" /\ adapters[2].operation = "reject"
    /\ adapters[2].isConfigured = "true"
    /\ adapters[3].providerId = "grok"
    /\ outcome.kind = "returned"
    /\ errors = <<[providerId |-> "gemini", error |-> "failed"],
                  [providerId |-> "openai", error |-> "failed"]>>

\* C3: within one text request the provider calls are strictly sequential:
\* at no time are two provider calls in flight, a call starts only after
\* every earlier call has failed, and no provider after the winner is called.
C3_SequentialCalls ==
    /\ Cardinality(inflight) <= 1
    /\ \A n \in 1..(Len(calls) - 1) :
          \E m \in 1..Len(errors) : errors[m].providerId = ChatProviders[calls[n]]
    /\ response.status = 200 => \A n \in 1..Len(calls) : calls[n] <= idx

\* ------------------------------------------ properties of the loader runs
\* the failure entry the loader records for position j of the order
LoaderExpectedEntry(j) ==
    [provider |-> providerOrder[j],
     error |-> IF ~(providerOrder[j] \in LoaderRegistry) THEN "Adapter not found"
               ELSE IF adapters[j].operation = "null"
                    THEN "Provider returned null (not supported)"
                    ELSE "failed"]

\* C7: when no provider succeeds, the thrown error carries one failure entry
\* per id of the resolved order, in that order, whatever the kind of failure;
\* an id without registered adapter gets an 'Adapter not found' entry at its
\* place and the run goes on past it.
C7_OneEntryPerProviderId ==
    /\ outcome.kind = "AllProvidersFailed" =>
          /\ Len(outcome.errors) = Len(providerOrder)
          /\ \A j \in 1..Len(providerOrder) :
                outcome.errors[j] = LoaderExpectedEntry(j)
    /\ \A j \in 1..Len(providerOrder) :
          ~(providerOrder[j] \in LoaderRegistry) =>
              /\ j \notin Range(calls)
              /\ idx > j =>
                    /\ Len(errors) >= j
                    /\ errors[j] = [provider |-> providerOrder[j],
                                    error |-> "Adapter not found"]
              /\ pc = "done" => idx # j

\* an order of an unknown id followed by a registered provider that returns
\* null under continueOnNull: the run has thrown with both entries
C7_Witness ==
    /\ outcome.kind = "AllProvidersFailed"
    /\ Len(providerOrder) = 2
    /\ ~(providerOrder[1] \in LoaderRegistry)
    /\ providerOrder[2] \in LoaderRegistry
    /\ adapters[2].operation = "null"
    /\ Len(outcome.errors) = 2

\* position j of the order yields no usable result to generateText & co.:
\* no adapter, a null result, or a rejection
LoaderNoResult(j) ==
    \/ ~(providerOrder[j] \in LoaderRegistry)
    \/ adapters[j].operation \in {"null", "reject"}

\* C10: generateText, generateImage and generateTTS never resolve to null;
\* a provider returning null is passed over, the providers after it are
\* called in order, and the value returned is that of the first position of
\* the order whose call fulfils with something other than null.
C10_NeverNull ==
    request.entry \in {"generateText", "generateImage", "generateTTS"} =>
        /\ outcome.kind = "returned" =>
              /\ outcome.result # Null
              /\ adapters[idx].operation \in {"value", "undefined"}
              /\ outcome.result =
                    (IF adapters[idx].operation = "value"
                     THEN Value(idx, providerOrder[idx])
                     ELSE Undefined)
              /\ \A j \in 1..(idx - 1) : LoaderNoResult(j)
        /\ \A j \in 1..Len(providerOrder) :
              (providerOrder[j] \in LoaderRegistry /\ adapters[j].operation = "null") =>
                  (pc = "done" => idx # j)
        /\ \A n \in 1..Len(calls) :
              /\ \A m \in 1..(n - 1) : calls[m] < calls[n]
              /\ \A j \in 1..(calls[n] - 1) :
                    providerOrder[j] \in LoaderRegistry => j \in Range(calls)

\* generateText under the default order: gemini returns null, openai wins
C10_Witness ==
    /\ request.entry = "generateText"
    /\ providerOrder = <<"gemini", "openai", "grok">>
    /\ adapters[1].operation = "null"
    /\ adapters[2].operation = "value"
    /\ outcome.kind = "returned"
    /\ calls = <<1, 2>>

\* ---------------------------------------- properties of the index.js runs
\* C8: a provider id of the configured order that has no registered adapter
\* is kept in the order the orchestrator iterates and shows up as a failure
\* entry of the run; it is never silently dropped.
C8_UnknownIdKept ==
    pc # "start" =>
        \A n \in 1..Len(IndexConfiguredIds(request.type, request.env)) :
            LET id == IndexConfiguredIds(request.type, request.env)[n] IN
            (id # "" /\ ~(id \in IndexRegistry)) =>
                /\ id \in Range(providerOrder)
                /\ outcome.kind = "AllProvidersFailed" =>
                      \E m \in 1..Len(outcome.errors) : outcome.errors[m].provider = id

\* C9: a success is reported only for a genuine non-empty adapter result: a
\* call that resolves to null or undefined never ends the run with a
\* returned value tagged with that provider.
C9_NullIsNotSuccess ==
    outcome.kind = "returned" => adapters[idx].operation = "value"

\* the timeout an attempt of the run is entitled to
FullTimeout == IF request.TIMEOUT_MS = Str10000 THEN 10000 ELSE 30000

\* the last failure entry recorded by a step, if the step recorded one
RecordsTimeout ==
    /\ Len(errors') = Len(errors) + 1
    /\ errors'[Len(errors')].error = "Request timed out"

\* C11: every attempt has its own cancellation scope and the full timeout:
\* each timer is started with the full configured value when its attempt
\* starts, a controller is aborted only by the fired timer of its own
\* attempt, and an attempt is recorded as timed out only after its own timer
\* has fired, whatever happened to the timers of earlier attempts.
C11_TimeoutIsolation ==
    [][/\ Len(timerDelay') = Len(calls')
       /\ \A n \in 1..Len(timerDelay') : timerDelay'[n] = FullTimeout
       /\ calls' # calls => calls'[Len(calls')] \in timers' \ aborted'
       /\ \A c \in aborted' : c \in Range(calls') /\ c \notin timers'
       /\ RecordsTimeout => idx \notin timers /\ idx \in aborted]_vars

\* the first attempt failed and left its timer behind; that timer fired during
\* the second attempt, which went on until its own timer fired
C11_Witness ==
    /\ Len(errors) = 2
    /\ errors[1].error = "failed"
    /\ errors[2].error = "Request timed out"
    /\ aborted = {1, 2}
    /\ timerDelay = <<10000, 10000>>

\* C12: the timer of an attempt is cleared on every exit path: a pending
\* timer belongs to the attempt in flight, and none is pending once the run
\* has returned or thrown.
C12_TimersCleared ==
    \A t \in timers : pc = "await" /\ t = idx

\* C13: once the timer of the attempt in flight has fired, the attempt ends
\* with a 'timed out' entry and the run moves on, whether or not the adapter
\* call settles: the timed-out step can be taken, and the attempt never ends
\* as the success of the run.
C13_TimeoutEndsAttempt ==
    /\ (pc = "await" /\ idx \in aborted) => ENABLED IndexTimedOut
    /\ outcome.kind = "returned" => idx \notin aborted

\* C14: when the caller cancels while an attempt is in flight, the
\* cancellation reaches that attempt and no provider after it is called.
C14_CancelStopsRun ==
    cancelledAt # 0 =>
        /\ cancelledAt \in aborted
        /\ \A n \in 1..Len(calls) : calls[n] <= cancelledAt

\* ------------------------------------------ liveness of the text handler
\* C15: every POST handled by the text entry point eventually produces a
\* response, even when a provider call never settles and the others fail.
C15_ChatAlwaysResponds ==
    (pc = "start" /\ request.method = "POST") ~> (response.status # 0)

\* ------------------------------------------- errors that leave a run
\* C16: the only error a run raises to its caller is the aggregated 'All
\* providers failed' error; an exception raised while one provider is
\* processed is recorded against it and the run proceeds.
C16_OnlyAggregatedError ==
    /\ outcome.kind \in {"none", "returned", "AllProvidersFailed"}
    /\ \A j \in 1..Len(adapters) :
          (adapters[j].isConfigured = "throws" /\ idx > j) =>
              \E m \in 1..Len(errors) : errors[m].providerId = adapters[j].providerId

\* ------------------------------------------- the resolved provider order
\* C17: the resolved order holds each provider id at most once, so no
\* provider is attempted twice in a run, even when the configured list
\* repeats an id.
C17_NoDuplicateProviders ==
    /\ \A m, n \in 1..Len(providerOrder) :
          m # n => providerOrder[m] # providerOrder[n]
    /\ \A m, n \in 1..Len(calls) :
          m # n => providerOrder[calls[m]] # providerOrder[calls[n]]

\* C18: for every value of the provider-order variable the list that
\* executeWithFallback iterates is non-empty (the default order is used when
\* the configured value yields no provider).
C18_OrderNeverEmpty ==
    (pc # "start" /\ request.modality \in {"text", "image", "tts"}) =>
        Len(providerOrder) > 0

\* ------------------------------ properties of the CommonJS index's orders
\* the *_PROVIDERS list of the request's capability as the code reads it,
\* before any PRIMARY_*_PROVIDER override
CjsConfiguredIds ==
    CASE request.capability = "text" -> parseProviders(request.env, CjsDefaultTextProviders)
      [] request.capability = "image" -> parseProviders(request.env, CjsDefaultImageProviders)
      [] OTHER -> parseProviders(request.env, CjsDefaultTtsProviders)

\* the positions called so far are called in list order, each once
CallsInListOrder == \A m, n \in 1..Len(calls) : m < n => calls[m] < calls[n]

\* C19: when the PRIMARY_*_PROVIDER variable of the capability is set to an
\* id B (ids are lower-case; the value is lower-cased before use), the
\* resolved order starts with B, contains B exactly once, and the other
\* configured ids follow in their original relative order; the configured
\* order [gemini, openai, grok] with override openai gives
\* [openai, gemini, grok].
C19_PrimaryMovedToFront ==
    (pc # "start" /\ request.primary # "") =>
        LET B == ToLowerCase(request.primary)
        IN /\ providerOrder[1] = B
           /\ Cardinality({n \in 1..Len(providerOrder) : providerOrder[n] = B}) = 1
           /\ Tail(providerOrder) = SelectSeq(CjsConfiguredIds, LAMBDA p : p # B)
           /\ (CjsConfiguredIds = <<"gemini", "openai", "grok">> /\ B = "openai") =>
                 providerOrder = <<"openai", "gemini", "grok">>

\* the override names the second of three configured ids, the order was
\* resolved to [openai, gemini, grok] and the run went down that order
C19_Witness ==
    /\ request.primary = "openai"
    /\ request.capability = "text"
    /\ CjsConfiguredIds = <<"gemini", "openai", "grok">>
    /\ providerOrder = <<"openai", "gemini", "grok">>
    /\ calls = <<1, 2, 3>>
    /\ Len(errors) = 3

OwnRecord(errs, out, behaviours, order, position, pending) ==
    /\ Len(errs) = position - 1
    /\ \A n \in 1..Len(errs) :
          /\ errs[n].provider = order[n]
          /\ errs[n].error = "failed" => behaviours[n].operation = "reject"
          /\ errs[n].error = "Request timed out" =>
                (n \notin pending /\ behaviours[n].signal = "honoured")
    /\ out.kind = "returned" =>
          /\ out.provider = order[position]
          /\ behaviours[position].operation \notin {"reject", "hang"}
    /\ out.kind = "AllProvidersFailed" => out.errors = errs

\* C22: two invocations of executeWithFallback interleaved at their await
\* points are independent: the failure list and the end of each are those of
\* its own attempts, as when it runs alone, and nothing recorded by one shows
\* in the other.
C22_RunsIndependent ==
    second.kind = "run" =>
        /\ OwnRecord(errors, outcome, adapters, providerOrder, idx, timers)
        /\ OwnRecord(second.errors, second.outcome, second.adapters,
                     second.providers, second.idx, second.timers)

\* both invocations are over: the first failed twice and threw, the second
\* was won by its first call while the first was still running
C22_Witness ==
    /\ second.kind = "run"
    /\ second.pc = "done"
    /\ second.outcome.kind = "returned"
    /\ second.errors = <<>>
    /\ pc = "done"
    /\ outcome.kind = "AllProvidersFailed"
    /\ Len(errors) = 2
    /\ errors[1].error = "Request timed out"
    /\ errors[2].error = "failed"

\* ------------------------------------------- properties of returned results
\* C23: the provider field of a result returned by executeWithFallback is the
\* id of the adapter whose call produced the result: the adapter at the
\* position of the run's last call, which recorded no failure; it is not
\* taken from a position that failed earlier or was never called.
C23_ProviderIsWinner ==
    outcome.kind = "returned" =>
        /\ calls # <<>>
        /\ calls[Len(calls)] = idx
        /\ outcome.provider = adapters[idx].providerId
        /\ Len(errors) = idx - 1
        /\ outcome.payload.from # 0 =>
              /\ outcome.payload.from = idx
              /\ outcome.payload.of = outcome.provider

\* gemini failed, openai produced the result and the result names openai
C23_Witness ==
    /\ outcome.kind = "returned"
    /\ providerOrder = <<"gemini", "openai">>
    /\ Len(errors) = 1
    /\ errors[1].provider = "gemini"
    /\ outcome.provider = "openai"
    /\ outcome.payload.from = 2

\* ------------------------------------------ properties of the image handler
\* C24: when no provider yields an image, the image handler sends exactly one
\* response: status 502 with code ALL_PROVIDERS_FAILED, attemptedProviders
\* equal to the resolved provider ids in order, and details holding one
\* entry per attempted provider, in attempt order.
C24_AllFailedResponse ==
    /\ response.sent <= 1
    /\ (pc = "done" /\ request.method = "POST" /\ request.prompt # ""
           /\ response.status # 200) =>
          /\ response.sent = 1
          /\ response.status = 502
          /\ response.code = "ALL_PROVIDERS_FAILED"
          /\ response.attemptedProviders = ImageIds(request)
          /\ Len(response.details) = Len(calls)
          /\ \A n \in 1..Len(calls) :
                response.details[n].provider =
                    ToLowerCase(response.attemptedProviders[calls[n]])
          /\ CallsInListOrder

\* IMAGE_PROVIDERS='gemini, openai ': both providers were called and failed,
\* and the 502 response lists both with one details entry each
C24_Witness ==
    /\ response.status = 502
    /\ response.attemptedProviders = <<"gemini", "openai">>
    /\ Len(response.details) = 2
    /\ response.details[1].provider = "gemini"
    /\ response.details[1].errorType = "empty_response"
    /\ response.details[2].provider = "openai"
    /\ response.details[2].errorType = "network"
    /\ calls = <<1, 2>>

\* -------------------------------------------- properties of the TTS handler
\* C25: when every TTS provider fails, the speech entry point answers with
\* status 502, code ALL_PROVIDERS_FAILED, an attemptedProviders array listing
\* the provider order, and a details array.
C25_TtsAllFailedResponse ==
    (pc = "done" /\ request.method = "POST" /\ request.text # ""
       /\ response.status # 200) =>
        /\ response.status = 502
        /\ "code" \in DOMAIN response
        /\ response.code = "ALL_PROVIDERS_FAILED"
        /\ "attemptedProviders" \in DOMAIN response
        /\ response.attemptedProviders = providerOrder
        /\ "details" \in DOMAIN response

\* ---------------------------------------- properties of request validation
\* C26: a POST to the image handler without a prompt is answered with status
\* 400 and code MISSING_PROMPT before the provider order is resolved, and no
\* adapter is built or invoked for that request.
C26_MissingPromptFailsFast ==
    (request.method = "POST" /\ request.prompt = "") =>
        /\ providerOrder = <<>>
        /\ adapters = <<>>
        /\ calls = <<>>
        /\ timers = {}
        /\ pc = "done" =>
              /\ response.status = 400
              /\ response.code = "MISSING_PROMPT"
              /\ response.sent = 1

\* a POST without prompt, with IMAGE_PROVIDERS set, was answered
C26_Witness ==
    /\ request.method = "POST"
    /\ request.prompt = ""
    /\ request.env = <<"gemini", " openai ">>
    /\ pc = "done"
    /\ response.status = 400

\* C27: a TTS request without text and a chat request without prompt are each
\* answered with status 400 and a MISSING_TEXT, respectively MISSING_PROMPT,
\* code, and no provider is called for such a request.  Stated here for the
\* chat handler, whose body then holds no messages.
C27_MissingFieldRejected ==
    (pc = "done" /\ request.method = "POST" /\ request.body = "noMessages") =>
        /\ response.status = 400
        /\ "code" \in DOMAIN response
        /\ response.code = "MISSING_PROMPT"
        /\ calls = <<>>

\* ------------------------------------------------- properties of getTimeoutMs
\* a string that denotes a number: white space around an optional sign and
\* one or more decimal digits, and nothing else
IsNumeric(s) ==
    LET RECURSIVE DropSpaces(_)
        DropSpaces(x) ==
            IF x # <<>> /\ Head(x) = " " THEN DropSpaces(Tail(x))
            ELSE IF x # <<>> /\ x[Len(x)] = " " THEN DropSpaces(SubSeq(x, 1, Len(x) - 1))
            ELSE x
        t == DropSpaces(s)
        body == IF t # <<>> /\ Head(t) \in {"-", "+"} THEN Tail(t) ELSE t
    IN body # <<>> /\ \A n \in 1..Len(body) : body[n] \in {"0", "1", "2", "3", "4", "5", "6", "7", "8", "9"}

\* C28: getTimeoutMs returns the integer value of TIMEOUT_MS when it is set
\* to a number (10000 for '10000') and the default 30000 when TIMEOUT_MS is
\* unset or is not a number.
C28_NumberOrDefault ==
    outcome.kind = "returned" =>
        /\ request.TIMEOUT_MS = Str10000 => outcome.value = 10000
        /\ IsNumeric(request.TIMEOUT_MS) =>
               outcome.value = ParseInt(request.TIMEOUT_MS).value
        /\ ~IsNumeric(request.TIMEOUT_MS) => outcome.value = 30000

\* ------------------------------------ properties of the adapters' timeouts
\* the adapter modules of the CommonJS index whose code is at hand
CjsKnownAdapters == {"openai", "grok", "pollinations"}

\* C29: with TIMEOUT_MS unset and no timeoutMs option, an image attempt made
\* through generateImage with fallback runs with a timeout of 60000 ms, and a
\* text or TTS attempt with 30000 ms.
C29_DefaultTimeouts ==
    (request.TIMEOUT_MS = TimeoutUnset /\ request.timeoutMs = NoTimeoutOption) =>
        \A n \in 1..Len(timerDelay) :
            providerOrder[calls[n]] \in CjsKnownAdapters =>
                timerDelay[n] = IF request.capability = "image" THEN 60000 ELSE 30000

\* ------------------------------------- properties of the error classification
\* the errorType the classification rule gives an error
ClassOf(err) ==
    IF err.name = "AbortError" \/ err.aborted THEN "timeout"
    ELSE IF err.code \in {"ECONNREFUSED", "ENOTFOUND", "ETIMEDOUT"} THEN "network"
    ELSE "api"

\* C30: every error gets exactly one errorType, 'timeout' for an AbortError or
\* a message containing 'aborted', otherwise 'network' for the codes
\* ECONNREFUSED, ENOTFOUND and ETIMEDOUT, otherwise 'api'; so an image attempt
\* that its timeout timer ended (a call that does not end by itself, whose
\* timer fired) is recorded in details with errorType 'timeout'.
C30_TimerEndedIsTimeout ==
    \A n \in 1..Len(errors) :
        /\ (calls[n] \notin aborted /\ adapters[calls[n]].operation = "reject") =>
               errors[n].errorType = ClassOf(adapters[calls[n]].error)
        /\ (calls[n] \in aborted
               /\ adapters[calls[n]].operation \in {"hang", "stallBody"}) =>
               errors[n].errorType = "timeout"

\* ------------------------------------- properties of the image handler's timeout
\* C35: the timeout an attempt of the image handler is started with is the
\* numeric value of TIMEOUT_MS when that is a number and 15000 when TIMEOUT_MS
\* is absent or not a number; it is never NaN.
C35_ImageTimeoutIsNumber ==
    request.kind = "image" =>
        \A n \in 1..Len(timerDelay) :
            /\ ~timerDelay[n].nan
            /\ timerDelay[n].value =
                   IF IsNumeric(request.TIMEOUT_MS)
                   THEN ParseInt(request.TIMEOUT_MS).value
                   ELSE 15000

\* ------------------------------------------ properties of base.js termination
\* every operation of the list settles (none stays pending for ever)
OperationsSettle == \A i \in 1..Len(adapters) : adapters[i].operation # "hang"

\* every isConfigured() of the list returns
ChecksReturn == \A i \in 1..Len(adapters) : adapters[i].isConfigured # "throws"

\* the run is over, with a returned result or with 'All providers failed'
EndedOneWay == pc = "done" /\ outcome.kind \in {"returned", "AllProvidersFailed"}

\* no list element has its operation invoked twice
AtMostOncePerElement ==
    /\ Len(calls) <= Len(adapters)
    /\ \A m, n \in 1..Len(calls) : calls[m] = calls[n] => m = n

ChatFulfils(i) == adapters[i].operation \in {"value", "null", "undefined"}

\* what the answers of the handler say about the three calls
ChatAnswersMatch ==
    /\ response.status = 200 =>
           /\ idx \in Range(calls)
           /\ ChatFulfils(idx)
           /\ response.result = OperationResult(idx)
    /\ (response.status = 500 /\ response.body = "All AIs failed") =>
           /\ Len(errors) = 3
           /\ \A i \in 1..3 :
                  \/ ~ChatFulfils(i)
                  \/ ChatEarlyRejection(i) # <<>>

C38_AudioFallbackInOrder ==
    (request.kind = "tts" /\ pc # "start"
        /\ request.method = "POST" /\ request.text # "") =>
        LET fallback == IF request.AUDIO_FALLBACK_PROVIDER = "" THEN "murf"
                        ELSE request.AUDIO_FALLBACK_PROVIDER
            fromEnv == parseProvidersEnv(request.env, request.PRIMARY_TTS_API_URL)
            resolved == IF fromEnv = <<>> THEN <<"openai", "gemini", "grok">> ELSE fromEnv
        IN /\ fallback \in Range(providerOrder)
           /\ Len(providerOrder) >= Len(resolved)
           /\ SubSeq(providerOrder, 1, Len(resolved)) = resolved
           /\ IF fallback \in Range(resolved)
              THEN providerOrder = resolved
              ELSE providerOrder = resolved \o <<fallback>>

\* the resolved list holds the audio fallback provider already, and the
\* handler goes on with the list as it is
C38_Witness ==
    /\ request.kind = "tts"
    /\ request.AUDIO_FALLBACK_PROVIDER = "gemini"
    /\ providerOrder = <<"gemini">>
    /\ calls = <<1>>

\* --------------------------------------- properties of validateEnvVars
\* C34: validateEnvVars puts every name of its input in exactly one of the
\* lists missing and configured, in missing when the variable is unset or
\* blank, and adds one warning holding '[category]' per missing name, so
\* warnings and missing have the same length.
C34_MissingOrConfigured ==
    (request.kind = "validate" /\ pc = "done") =>
        /\ \A n \in 1..Len(request.envVars) :
              LET envName == request.envVars[n]
                  unset == request.env[envName] \in {EnvUnset, <<"">>, <<" ">>}
              IN /\ (envName \in Range(outcome.missing)) # (envName \in Range(outcome.configured))
                 /\ (envName \in Range(outcome.missing)) = unset
        /\ Len(outcome.missing) + Len(outcome.configured) = Len(request.envVars)
        /\ Len(outcome.warnings) = Len(outcome.missing)
        /\ \A n \in 1..Len(outcome.warnings) :
              /\ SubSeq(outcome.warnings[n], 1, 2) = <<"[", request.category>>
              /\ outcome.warnings[n][4] = outcome.missing[n]

\* an input with a variable that is set and two that are not
C34_Witness ==
    /\ request.kind = "validate"
    /\ pc = "done"
    /\ Len(outcome.missing) = 2
    /\ Len(outcome.configured) = 1

\* ------------------------------------ properties of one adapter operation
\* C32: an adapter of a vendor that lacks a capability (Grok: image and TTS,
\* Murf: text and image) declines that operation at once, with null or a
\* 'not supported' error, and sends no request, whatever its configuration.
C32_DeclinesWithoutRequest ==
    (/\ request.kind = "operation"
     /\ \/ /\ request.adapter \in {"grok", "GrokAdapter"}
           /\ request.operation \in {"generateImage", "generateTTS"}
        \/ /\ request.adapter \in {"murf", "MurfAdapter", "murfModule"}
           /\ request.operation \in {"generateText", "generateImage"}) =>
        /\ calls = <<>>
        /\ pc = "done" =>
               \/ outcome.kind = "returned" /\ outcome.result.type = "null"
               \/ outcome.kind = "threw" /\ outcome.message = "not supported"

\* C33: an operation of the generic adapter ends in one of three ways: it
\* throws when no base URL is configured (before any request) or when the
\* response is not ok; it returns null when the response is ok and holds none
\* of the fields it recognizes; it returns a populated result otherwise.
C33_GenericOutcomes ==
    (request.kind = "operation" /\ request.adapter = "generic" /\ pc = "done") =>
        LET known == CASE request.operation = "generateText" ->
                              {"text", "output", "result", "choices"}
                       [] request.operation = "generateImage" ->
                              {"url", "image_url", "data", "base64"}
                       [] OTHER -> {"url", "audio_url", "base64"}
            held == IF adapters[1].readable THEN adapters[1].fields \cap known ELSE {}
        IN /\ outcome.kind \in {"threw", "returned"}
           /\ request.url = "" => (outcome.kind = "threw" /\ calls = <<>>)
           /\ (request.url # "" /\ adapters[1].fetch = "notOk") => outcome.kind = "threw"
           /\ (request.url # "" /\ adapters[1].fetch = "ok" /\ held = {}) =>
                  (outcome.kind = "returned" /\ outcome.result.type = "null")
           /\ (request.url # "" /\ adapters[1].fetch = "ok" /\ held # {}) =>
                  /\ outcome.kind = "returned"
                  /\ outcome.result.type = request.operation
                  /\ outcome.result.from \in held \/ outcome.result.base64

\* generateImage of the generic adapter got an ok response with an image_url
C33_Witness ==
    /\ request.kind = "operation"
    /\ request.adapter = "generic"
    /\ request.operation = "generateImage"
    /\ pc = "done"
    /\ outcome.kind = "returned"
    /\ outcome.result.from = "image_url"

\* ------------------------------------ properties of the Murf generateTTS call
\* C31: when the caller's signal is aborted, at any time from before the
\* call starts until it completes, the adapter's request is aborted and the
\* operation rejects instead of waiting for the vendor; the adapter's timer
\* is cleared on every exit path.
C31_AbortEndsCall ==
    request.kind = "murfTTS" =>
        /\ (cancelledAt # 0 /\ pc \notin {"start", "done"}) => 1 \in aborted
        /\ (cancelledAt # 0 /\ pc = "done") => outcome.kind = "threw"
        /\ pc = "done" => timers = {}

====
